---- MODULE Spec2Model ----
(***************************************************************************)
(* Token accounting of kush-go on an ordered key-value ledger.             *)
(*                                                                         *)
(*  - the multi-token contract (Contracts/token/ERC1155.go, SmartContract) *)
(*    with its partitioned balances account~tokenId~sender, specification  *)
(*    Spec;                                                                *)
(*  - the fungible contract (Contracts/token/ERC20.go, TokenERC20Contract) *)
(*    whose world state is keyed by plain strings, specification Spec20;   *)
(*  - the non-fungible contract (TokenERC721Contract), specification       *)
(*    Spec721;                                                             *)
(*  - the three contracts side by side, specification SpecAll.             *)
(*                                                                         *)
(* A chaincode invocation is one transaction: it runs to completion on a   *)
(* working copy of the world state, and the host commits the writes and    *)
(* the event only when the invocation returns no error.  An invocation is  *)
(* one action; its response stays in `last` until the client takes it      *)
(* (Respond), and only then the next invocation is proposed.               *)
(***************************************************************************)
EXTENDS Integers, Sequences, FiniteSets, TLC

\* ------------------------------------------------------------------ bounds
\* The largest representable uint64, scaled down (2^64-1 in the code).
MaxUint64 == 15
\* Committed transactions explored after the initial ledger.
MaxHeight == 1
\* Longest ids/amounts array of a batch invocation.
MaxBatch == 2

\* ----------------------------------------------------- multi-token: inputs
\* Client identities (GetID), in the byte order of the ledger's keys.
ClientOrder == <<"a", "b", "c">>
Clients == {ClientOrder[i] : i \in 1..Len(ClientOrder)}
\* Account arguments: the client identities and the zero address.
AccountArgs == Clients \cup {"0x0"}
\* The account strings in the byte order of the ledger's keys.
KeyOrder == <<"0x0">> \o ClientOrder
TokenIds == {1, 2}
Amounts == {0, 2, 3, 5, 6, MaxUint64}

minterMSPID == "mailabs"
\* GetMSPID of a client identity: a and b belong to the minter organisation.
ClientMSPID(c) == IF c \in {"a", "b"} THEN minterMSPID ELSE "org2"

\* An absent ledger entry (GetState returns nil).
nil == -1

BalanceKeys == AccountArgs \X TokenIds \X AccountArgs

VARIABLES
    options,      \* nameKey/symbolKey of the multi-token contract, "" when absent
    balance,      \* balancePrefix entries: <<account, tokenId, sender>> -> amount or nil
    approval,     \* approvalPrefix entries: <<account, operator>> -> "nil" | "true" | "false"
    uri,          \* uriKey
    height,       \* transactions counted against MaxHeight
    last,         \* the invocation whose response is in flight
    prev,         \* balance as it was before that invocation
    events,       \* events set by that invocation, in order
    ws20,         \* world state of the fungible contract: plain string key -> value
    allowance20,  \* allowancePrefix entries of the fungible contract: <<owner, spender>> -> value
    height20,     \* transactions counted against MaxHeight20
    last20,       \* the fungible invocation whose response is in flight
    prev20,       \* ws20 and allowance20 as they were before that invocation
    events20,     \* events set by that invocation, in order
    options721,   \* nameKey1/symbolKey1 of the non-fungible contract, "" when absent
    nft,          \* nftPrefix entries: tokenId -> Nft record
    index721,     \* balancePrefix entries of the non-fungible contract: <<owner, tokenId>>
    approval721,  \* approvalPrefix entries: <<owner, operator>> -> "nil" | "true" | "false"
    height721,    \* transactions counted against MaxHeight721
    last721,      \* the non-fungible invocation whose response is in flight
    prev721,      \* nft, index721 and approval721 as they were before that invocation
    events721     \* events set by that invocation, in order

vars1155 == <<options, balance, approval, uri, height, last, prev, events>>
vars20 == <<ws20, allowance20, height20, last20, prev20, events20>>
vars721 == <<options721, nft, index721, approval721, height721, last721, prev721, events721>>
vars == <<vars1155, vars20, vars721>>

\* ------------------------------------------------------ checked arithmetic
\* add: the sum, or ArithmeticOverflow when it leaves the unsigned range.
add(b, q) ==
    IF b + q > MaxUint64
    THEN [err |-> "ArithmeticOverflow", val |-> 0]
    ELSE [err |-> "ok", val |-> b + q]

\* sub: the difference, or an error when q exceeds b.
sub(b, q) ==
    IF q > b
    THEN [err |-> "InsufficientFunds", val |-> 0]
    ELSE [err |-> "ok", val |-> b - q]

\* sortedKeys: the keys of a map id -> amount in ascending numeric order.
RECURSIVE sortedKeys(_)
sortedKeys(m) ==
    IF DOMAIN m = {} THEN <<>>
    ELSE LET lo == CHOOSE k \in DOMAIN m : \A j \in DOMAIN m : k <= j
         IN <<lo>> \o sortedKeys([k \in DOMAIN m \ {lo} |-> m[k]])

\* ------------------------------------------------------------ world state
\* strconv.ParseUint of a stored value; an absent value reads as 0.
ParseUint(v) == IF v = nil THEN 0 ELSE v

PutState(st, key, v) == [st EXCEPT ![key] = v]

\* DelState: deleting a key that names no entry (the empty key of
\* removeBalance included) leaves the ledger as it is.
DelState(st, key) == IF key \in DOMAIN st THEN [st EXCEPT ![key] = nil] ELSE st

\* GetStateByPartialCompositeKey(balancePrefix, {account, id}): the senders of
\* the entries of (account, id), in ascending key order.
RECURSIVE ScanFrom(_, _, _, _)
ScanFrom(st, account, id, i) ==
    IF i > Len(KeyOrder) THEN <<>>
    ELSE (IF st[<<account, id, KeyOrder[i]>>] # nil THEN <<KeyOrder[i]>> ELSE <<>>)
         \o ScanFrom(st, account, id, i + 1)

GetStateByPartialCompositeKey(st, account, id) ==
    IF account \in AccountArgs THEN ScanFrom(st, account, id, 1) ELSE <<>>

\* --------------------------------------------------- multi-token: helpers
checkInitialized == options.name # ""

\* authorizationHelper that admits every issuer.
authorizationHelper_AnyIssuer(caller) == "ok"

authorizationHelper(caller) ==
    IF ClientMSPID(caller) # minterMSPID THEN "Unauthorized" ELSE "ok"

\* _isApprovedForAll: the stored flag, false for a pair never set.
_isApprovedForAll(account, operator) ==
    IF <<account, operator>> \in DOMAIN approval
    THEN approval[<<account, operator>>] = "true"
    ELSE FALSE

\* addBalance with the parts of the key in the order sender, id, recipient.
addBalance_SenderKey(st, sender, recipient, id, amount) ==
    LET balanceKey == <<sender, id, recipient>>
        r == add(ParseUint(st[balanceKey]), amount)
    IN  IF r.err # "ok" THEN [err |-> r.err, st |-> st]
        ELSE [err |-> "ok", st |-> PutState(st, balanceKey, r.val)]

\* addBalance with an unchecked sum, which wraps around.
addBalance_Wraps(st, sender, recipient, id, amount) ==
    LET balanceKey == <<recipient, id, sender>>
    IN  [err |-> "ok",
         st |-> PutState(st, balanceKey,
                         (ParseUint(st[balanceKey]) + amount) % (MaxUint64 + 1))]

\* addBalance: read the entry (recipient, id, sender), add, write back.
addBalance(st, sender, recipient, id, amount) ==
    LET balanceKey == <<recipient, id, sender>>
        r == add(ParseUint(st[balanceKey]), amount)
    IN  IF r.err # "ok" THEN [err |-> r.err, st |-> st]
        ELSE [err |-> "ok", st |-> PutState(st, balanceKey, r.val)]

\* setBalance: overwrite the entry (recipient, id, sender).
setBalance(st, sender, recipient, id, amount) ==
    PutState(st, <<recipient, id, sender>>, amount)

\* mintHelper that credits any account, the zero address included.
mintHelper_AnyAccount(st, operator, account, id, amount) ==
    IF amount <= 0 THEN [err |-> "InvalidAmount", st |-> st]
    ELSE addBalance(st, operator, account, id, amount)

mintHelper(st, operator, account, id, amount) ==
    IF account = "0x0" THEN [err |-> "InvalidAddress", st |-> st]
    ELSE IF amount <= 0 THEN [err |-> "InvalidAmount", st |-> st]
    ELSE addBalance(st, operator, account, id, amount)

\* sumPerId keeping the last amount given for an id instead of the sum.
RECURSIVE sumPerId_LastWins(_, _, _, _)
sumPerId_LastWins(ids, amounts, i, m) ==
    IF i > Len(amounts) THEN [err |-> "ok", m |-> m]
    ELSE sumPerId_LastWins(ids, amounts, i + 1,
                           [k \in DOMAIN m \cup {ids[i]} |->
                               IF k = ids[i] THEN amounts[i] ELSE m[k]])

\* The loop that sums the amounts of a batch per id (necessaryFunds,
\* amountToSend): a Go map, absent ids reading as 0.
RECURSIVE sumPerId(_, _, _, _)
sumPerId(ids, amounts, i, m) ==
    IF i > Len(amounts) THEN [err |-> "ok", m |-> m]
    ELSE LET id == ids[i]
             r == add(IF id \in DOMAIN m THEN m[id] ELSE 0, amounts[i])
         IN  IF r.err # "ok" THEN [err |-> r.err, m |-> m]
             ELSE sumPerId(ids, amounts, i + 1,
                           [k \in DOMAIN m \cup {id} |-> IF k = id THEN r.val ELSE m[k]])

\* scanLoop that folds the entries in but deletes none of them.
RECURSIVE scanLoop_NoDelete(_, _, _, _, _, _, _, _)
scanLoop_NoDelete(st, sender, tokenId, keys, j, partialBalance, selfRecipientKey, neededAmount) ==
    IF ~(j <= Len(keys) /\ partialBalance < neededAmount)
    THEN [err |-> "ok", st |-> st, partialBalance |-> partialBalance,
          selfRecipientKey |-> selfRecipientKey]
    ELSE LET key == <<sender, tokenId, keys[j]>>
             r == add(partialBalance, ParseUint(st[key]))
         IN  IF r.err # "ok"
             THEN [err |-> r.err, st |-> st, partialBalance |-> partialBalance,
                   selfRecipientKey |-> selfRecipientKey]
             ELSE scanLoop_NoDelete(st, sender, tokenId, keys, j + 1, r.val,
                                    IF keys[j] = sender THEN key ELSE selfRecipientKey,
                                    neededAmount)

\* scanLoop that folds in every entry of (sender, tokenId), past the point
\* where partialBalance reaches neededAmount.
RECURSIVE scanLoop_ScansAll(_, _, _, _, _, _, _, _)
scanLoop_ScansAll(st, sender, tokenId, keys, j, partialBalance, selfRecipientKey, neededAmount) ==
    IF ~(j <= Len(keys))
    THEN [err |-> "ok", st |-> st, partialBalance |-> partialBalance,
          selfRecipientKey |-> selfRecipientKey]
    ELSE LET key == <<sender, tokenId, keys[j]>>
             r == add(partialBalance, ParseUint(st[key]))
         IN  IF r.err # "ok"
             THEN [err |-> r.err, st |-> st, partialBalance |-> partialBalance,
                   selfRecipientKey |-> selfRecipientKey]
             ELSE IF keys[j] = sender
             THEN scanLoop_ScansAll(st, sender, tokenId, keys, j + 1, r.val, key, neededAmount)
             ELSE scanLoop_ScansAll(DelState(st, key), sender, tokenId, keys, j + 1, r.val,
                                    selfRecipientKey, neededAmount)

\* The scan of removeBalance over the entries of (sender, tokenId): fold the
\* entries into partialBalance while it is below neededAmount, deleting every
\* entry but the sender's own.
RECURSIVE scanLoop(_, _, _, _, _, _, _, _)
scanLoop(st, sender, tokenId, keys, j, partialBalance, selfRecipientKey, neededAmount) ==
    IF ~(j <= Len(keys) /\ partialBalance < neededAmount)
    THEN [err |-> "ok", st |-> st, partialBalance |-> partialBalance,
          selfRecipientKey |-> selfRecipientKey]
    ELSE LET key == <<sender, tokenId, keys[j]>>
             r == add(partialBalance, ParseUint(st[key]))
         IN  IF r.err # "ok"
             THEN [err |-> r.err, st |-> st, partialBalance |-> partialBalance,
                   selfRecipientKey |-> selfRecipientKey]
             ELSE IF keys[j] = sender
             THEN scanLoop(st, sender, tokenId, keys, j + 1, r.val, key, neededAmount)
             ELSE scanLoop(DelState(st, key), sender, tokenId, keys, j + 1, r.val,
                           selfRecipientKey, neededAmount)

\* removeOne that adds the remainder to the sender's own entry where the code
\* overwrites it.
removeOne_AddsRemainder(st, sender, tokenId, neededAmount) ==
    LET sc == scanLoop(st, sender, tokenId,
                       GetStateByPartialCompositeKey(st, sender, tokenId),
                       1, 0, <<>>, neededAmount)
    IN  IF sc.err # "ok" THEN [err |-> sc.err, st |-> sc.st]
        ELSE IF sc.partialBalance < neededAmount
        THEN [err |-> "InsufficientFunds", st |-> sc.st]
        ELSE IF sc.partialBalance > neededAmount
        THEN addBalance(sc.st, sender, sender, tokenId, sc.partialBalance - neededAmount)
        ELSE [err |-> "ok", st |-> DelState(sc.st, sc.selfRecipientKey)]

\* removeOne that leaves the sender's own entry in place on an exact match.
removeOne_KeepsSelf(st, sender, tokenId, neededAmount) ==
    LET sc == scanLoop(st, sender, tokenId,
                       GetStateByPartialCompositeKey(st, sender, tokenId),
                       1, 0, <<>>, neededAmount)
    IN  IF sc.err # "ok" THEN [err |-> sc.err, st |-> sc.st]
        ELSE IF sc.partialBalance < neededAmount
        THEN [err |-> "InsufficientFunds", st |-> sc.st]
        ELSE IF sc.partialBalance > neededAmount
        THEN IF sc.selfRecipientKey # <<>>
             THEN [err |-> "ok",
                   st |-> setBalance(sc.st, sender, sender, tokenId,
                                     sc.partialBalance - neededAmount)]
             ELSE addBalance(sc.st, sender, sender, tokenId,
                             sc.partialBalance - neededAmount)
        ELSE [err |-> "ok", st |-> sc.st]

\* One token id of removeBalance: the scan, then the remainder handling.
removeOne(st, sender, tokenId, neededAmount) ==
    LET sc == scanLoop(st, sender, tokenId,
                       GetStateByPartialCompositeKey(st, sender, tokenId),
                       1, 0, <<>>, neededAmount)
        selfRecipientKeyNeedsToBeRemoved == sc.selfRecipientKey # <<>>
    IN  IF sc.err # "ok" THEN [err |-> sc.err, st |-> sc.st]
        ELSE IF sc.partialBalance < neededAmount
        THEN [err |-> "InsufficientFunds", st |-> sc.st]
        ELSE IF sc.partialBalance > neededAmount
        THEN LET remainder == sub(sc.partialBalance, neededAmount)
             IN  IF remainder.err # "ok" THEN [err |-> remainder.err, st |-> sc.st]
                 ELSE IF selfRecipientKeyNeedsToBeRemoved
                 THEN [err |-> "ok",
                       st |-> setBalance(sc.st, sender, sender, tokenId, remainder.val)]
                 ELSE addBalance(sc.st, sender, sender, tokenId, remainder.val)
        ELSE [err |-> "ok", st |-> DelState(sc.st, sc.selfRecipientKey)]

RECURSIVE removeLoop(_, _, _, _, _)
removeLoop(st, sender, necessaryFunds, necessaryFundsKeys, t) ==
    IF t > Len(necessaryFundsKeys) THEN [err |-> "ok", st |-> st]
    ELSE LET tokenId == necessaryFundsKeys[t]
             r == removeOne(st, sender, tokenId, necessaryFunds[tokenId])
         IN  IF r.err # "ok" THEN r
             ELSE removeLoop(r.st, sender, necessaryFunds, necessaryFundsKeys, t + 1)

\* The distinct ids of a batch in the order the arrays first name them.
RECURSIVE keysInInputOrder(_, _)
keysInInputOrder(ids, seen) ==
    IF ids = <<>> THEN <<>>
    ELSE IF Head(ids) \in seen THEN keysInInputOrder(Tail(ids), seen)
    ELSE <<Head(ids)>> \o keysInInputOrder(Tail(ids), seen \cup {Head(ids)})

\* removeBalance that serves the ids in the order of the arrays, unsorted.
removeBalance_InputOrder(st, sender, ids, amounts) ==
    LET nf == sumPerId(ids, amounts, 1, <<>>)
    IN  IF nf.err # "ok" THEN [err |-> nf.err, st |-> st]
        ELSE removeLoop(st, sender, nf.m, keysInInputOrder(ids, {}), 1)

\* removeBalance: the demands summed per id, then served per id ascending.
removeBalance(st, sender, ids, amounts) ==
    LET nf == sumPerId(ids, amounts, 1, <<>>)
    IN  IF nf.err # "ok" THEN [err |-> nf.err, st |-> st]
        ELSE removeLoop(st, sender, nf.m, sortedKeys(nf.m), 1)

\* The tokenId that removeBalance names in the error it returns from its loop
\* over the sorted ids; 0 when the loop ends without an error.
RECURSIVE removeLoopTokenId(_, _, _, _, _)
removeLoopTokenId(st, sender, necessaryFunds, necessaryFundsKeys, t) ==
    IF t > Len(necessaryFundsKeys) THEN 0
    ELSE LET tokenId == necessaryFundsKeys[t]
             r == removeOne(st, sender, tokenId, necessaryFunds[tokenId])
         IN  IF r.err # "ok" THEN tokenId
             ELSE removeLoopTokenId(r.st, sender, necessaryFunds, necessaryFundsKeys, t + 1)

removeBalanceTokenId(st, sender, ids, amounts) ==
    LET nf == sumPerId(ids, amounts, 1, <<>>)
    IN  IF nf.err # "ok" THEN 0
        ELSE removeLoopTokenId(st, sender, nf.m, sortedKeys(nf.m), 1)

\* balanceOfHelper: the checked sum of the entries of (account, id).
RECURSIVE balanceLoop(_, _, _, _, _, _)
balanceLoop(st, account, id, keys, j, bal) ==
    IF j > Len(keys) THEN [err |-> "ok", val |-> bal]
    ELSE LET r == add(bal, ParseUint(st[<<account, id, keys[j]>>]))
         IN  IF r.err # "ok" THEN [err |-> r.err, val |-> 0]
             ELSE balanceLoop(st, account, id, keys, j + 1, r.val)

balanceOfHelper(st, account, id) ==
    IF account = "0x0" THEN [err |-> "InvalidAddress", val |-> 0]
    ELSE balanceLoop(st, account, id, GetStateByPartialCompositeKey(st, account, id), 1, 0)

\* ------------------------------------------------ multi-token: invocations
NoCall ==
    [op |-> "none", caller |-> "", from |-> "", to |-> "", ids |-> <<>>,
     amounts |-> <<>>, approved |-> FALSE, err |-> "ok"]

Call(op, caller, from, to, ids, amounts, approved, err) ==
    [op |-> op, caller |-> caller, from |-> from, to |-> to, ids |-> ids,
     amounts |-> amounts, approved |-> approved, err |-> err]

TransferSingle(operator, from, to, id, value) ==
    [name |-> "TransferSingle", operator |-> operator, from |-> from, to |-> to,
     ids |-> <<id>>, values |-> <<value>>]

TransferBatch(operator, from, to, ids, values) ==
    [name |-> "TransferBatch", operator |-> operator, from |-> from, to |-> to,
     ids |-> ids, values |-> values]

\* An invocation is proposed when no response is in flight.
Ready == last = NoCall /\ height < MaxHeight

\* A commit rule that keeps the writes of an invocation that returned an error.
Commit_KeepsWrites(call, r, evs) ==
    /\ last' = call
    /\ prev' = balance
    /\ balance' = r.st
    /\ IF r.err = "ok"
       THEN events' = evs /\ height' = height + 1
       ELSE events' = <<>> /\ height' = height
    /\ UNCHANGED <<options, approval, uri>>
    /\ UNCHANGED <<vars20, vars721>>

\* The host's commit rule for an invocation that touches the balances: r.st
\* is the working copy as the invocation left it, r.err what it returned.  The
\* writes and the event become visible only when it returned no error.
Commit(call, r, evs) ==
    /\ last' = call
    /\ prev' = balance
    /\ IF r.err = "ok"
       THEN balance' = r.st /\ events' = evs /\ height' = height + 1
       ELSE balance' = balance /\ events' = <<>> /\ height' = height
    /\ UNCHANGED <<options, approval, uri>>
    /\ UNCHANGED <<vars20, vars721>>

\* An invocation that returns before its first write.
Fail(err) == [err |-> err, st |-> balance]

\* SmartContract.Mint
MintResult(caller, account, id, amount) ==
    IF ~checkInitialized THEN Fail("NotInitialized")
    ELSE IF authorizationHelper(caller) # "ok" THEN Fail("Unauthorized")
    ELSE mintHelper(balance, caller, account, id, amount)

Mint ==
    /\ Ready
    /\ \E caller \in Clients, account \in AccountArgs, id \in TokenIds, amount \in Amounts :
        LET r == MintResult(caller, account, id, amount)
        IN  Commit(Call("Mint", caller, "0x0", account, <<id>>, <<amount>>, FALSE, r.err),
                   r, <<TransferSingle(caller, "0x0", account, id, amount)>>)

\* The credit loop of MintBatch over the sorted ids of amountToSend.
RECURSIVE mintLoop(_, _, _, _, _, _)
mintLoop(st, operator, account, amountToSend, amountToSendKeys, t) ==
    IF t > Len(amountToSendKeys) THEN [err |-> "ok", st |-> st]
    ELSE LET id == amountToSendKeys[t]
             r == mintHelper(st, operator, account, id, amountToSend[id])
         IN  IF r.err # "ok" THEN r
             ELSE mintLoop(r.st, operator, account, amountToSend, amountToSendKeys, t + 1)

\* SmartContract.MintBatch
MintBatchResult(caller, account, ids, amounts) ==
    IF ~checkInitialized THEN Fail("NotInitialized")
    ELSE IF Len(ids) # Len(amounts) THEN Fail("LengthMismatch")
    ELSE IF authorizationHelper(caller) # "ok" THEN Fail("Unauthorized")
    ELSE LET ats == sumPerId(ids, amounts, 1, <<>>)
         IN  IF ats.err # "ok" THEN Fail(ats.err)
             ELSE mintLoop(balance, caller, account, ats.m, sortedKeys(ats.m), 1)

\* Burn that asks for the caller to be the account or an operator of it.
BurnResult_NeedsApproval(caller, account, id, amount) ==
    IF ~checkInitialized THEN Fail("NotInitialized")
    ELSE IF account = "0x0" THEN Fail("InvalidAddress")
    ELSE IF authorizationHelper(caller) # "ok" THEN Fail("Unauthorized")
    ELSE IF caller # account /\ ~_isApprovedForAll(account, caller) THEN Fail("Unauthorized")
    ELSE removeBalance(balance, account, <<id>>, <<amount>>)

\* SmartContract.Burn
BurnResult(caller, account, id, amount) ==
    IF ~checkInitialized THEN Fail("NotInitialized")
    ELSE IF account = "0x0" THEN Fail("InvalidAddress")
    ELSE IF authorizationHelper(caller) # "ok" THEN Fail("Unauthorized")
    ELSE removeBalance(balance, account, <<id>>, <<amount>>)

Burn ==
    /\ Ready
    /\ \E caller \in Clients, account \in AccountArgs, id \in TokenIds, amount \in Amounts :
        LET r == BurnResult(caller, account, id, amount)
        IN  Commit(Call("Burn", caller, account, "0x0", <<id>>, <<amount>>, FALSE, r.err),
                   r, <<TransferSingle(caller, account, "0x0", id, amount)>>)

\* TransferFrom that debits the sender for any caller.
TransferFromResult_NoApprovalCheck(caller, sender, recipient, id, amount) ==
    IF ~checkInitialized THEN Fail("NotInitialized")
    ELSE IF sender = recipient THEN Fail("SelfOperation")
    ELSE LET rm == removeBalance(balance, sender, <<id>>, <<amount>>)
         IN  IF rm.err # "ok" THEN rm
             ELSE IF recipient = "0x0" THEN [err |-> "InvalidAddress", st |-> rm.st]
             ELSE addBalance(rm.st, sender, recipient, id, amount)

\* SmartContract.TransferFrom
TransferFromResult(caller, sender, recipient, id, amount) ==
    IF ~checkInitialized THEN Fail("NotInitialized")
    ELSE IF sender = recipient THEN Fail("SelfOperation")
    ELSE IF caller # sender /\ ~_isApprovedForAll(sender, caller) THEN Fail("Unauthorized")
    ELSE LET rm == removeBalance(balance, sender, <<id>>, <<amount>>)
         IN  IF rm.err # "ok" THEN rm
             ELSE IF recipient = "0x0" THEN [err |-> "InvalidAddress", st |-> rm.st]
             ELSE addBalance(rm.st, sender, recipient, id, amount)

TransferFrom ==
    /\ Ready
    /\ \E caller \in Clients, sender \in AccountArgs, recipient \in AccountArgs,
       id \in TokenIds, amount \in Amounts :
        LET r == TransferFromResult(caller, sender, recipient, id, amount)
        IN  Commit(Call("TransferFrom", caller, sender, recipient, <<id>>, <<amount>>,
                        FALSE, r.err),
                   r, <<TransferSingle(caller, sender, recipient, id, amount)>>)

\* SmartContract.BurnBatch
BurnBatchResult(caller, account, ids, amounts) ==
    IF ~checkInitialized THEN Fail("NotInitialized")
    ELSE IF account = "0x0" THEN Fail("InvalidAddress")
    ELSE IF Len(ids) # Len(amounts) THEN Fail("LengthMismatch")
    ELSE IF authorizationHelper(caller) # "ok" THEN Fail("Unauthorized")
    ELSE removeBalance(balance, account, ids, amounts)

\* The credit loop of BatchTransferFrom over the sorted ids of amountToSend.
RECURSIVE creditLoop(_, _, _, _, _, _)
creditLoop(st, sender, recipient, amountToSend, amountToSendKeys, t) ==
    IF t > Len(amountToSendKeys) THEN [err |-> "ok", st |-> st]
    ELSE LET id == amountToSendKeys[t]
             r == addBalance(st, sender, recipient, id, amountToSend[id])
         IN  IF r.err # "ok" THEN r
             ELSE creditLoop(r.st, sender, recipient, amountToSend, amountToSendKeys, t + 1)

\* SmartContract.BatchTransferFrom
BatchTransferFromResult(caller, sender, recipient, ids, amounts) ==
    IF ~checkInitialized THEN Fail("NotInitialized")
    ELSE IF sender = recipient THEN Fail("SelfOperation")
    ELSE IF Len(ids) # Len(amounts) THEN Fail("LengthMismatch")
    ELSE IF caller # sender /\ ~_isApprovedForAll(sender, caller) THEN Fail("Unauthorized")
    ELSE LET rm == removeBalance(balance, sender, ids, amounts)
         IN  IF rm.err # "ok" THEN rm
             ELSE IF recipient = "0x0" THEN [err |-> "InvalidAddress", st |-> rm.st]
             ELSE LET ats == sumPerId(ids, amounts, 1, <<>>)
                  IN  IF ats.err # "ok" THEN [err |-> ats.err, st |-> rm.st]
                      ELSE creditLoop(rm.st, sender, recipient, ats.m, sortedKeys(ats.m), 1)

\* The ids/amounts arrays of the batch invocations.
SeqsUpTo(S, n) == UNION {[1..k -> S] : k \in 0..n}
BatchAmounts == {5, 10}

MintBatch ==
    /\ Ready
    /\ \E caller \in Clients, account \in AccountArgs,
       ids \in SeqsUpTo(TokenIds, MaxBatch), amounts \in SeqsUpTo(BatchAmounts, MaxBatch) :
        LET r == MintBatchResult(caller, account, ids, amounts)
        IN  Commit(Call("MintBatch", caller, "0x0", account, ids, amounts, FALSE, r.err),
                   r, <<TransferBatch(caller, "0x0", account, ids, amounts)>>)

BurnBatch ==
    /\ Ready
    /\ \E caller \in Clients, account \in AccountArgs,
       ids \in SeqsUpTo(TokenIds, MaxBatch), amounts \in SeqsUpTo(BatchAmounts, MaxBatch) :
        LET r == BurnBatchResult(caller, account, ids, amounts)
        IN  Commit(Call("BurnBatch", caller, account, "0x0", ids, amounts, FALSE, r.err),
                   r, <<TransferBatch(caller, account, "0x0", ids, amounts)>>)

BatchTransferFrom ==
    /\ Ready
    /\ \E caller \in Clients, sender \in AccountArgs, recipient \in AccountArgs,
       ids \in SeqsUpTo(TokenIds, MaxBatch), amounts \in SeqsUpTo(BatchAmounts, MaxBatch) :
        LET r == BatchTransferFromResult(caller, sender, recipient, ids, amounts)
        IN  Commit(Call("BatchTransferFrom", caller, sender, recipient, ids, amounts,
                        FALSE, r.err),
                   r, <<TransferBatch(caller, sender, recipient, ids, amounts)>>)

\* SmartContract.SetApprovalForAll
SetApprovalForAll ==
    /\ Ready
    /\ \E caller \in Clients, operator \in Clients, approved \in BOOLEAN :
        LET err == IF ~checkInitialized THEN "NotInitialized"
                   ELSE IF caller = operator THEN "SelfOperation" ELSE "ok"
        IN  /\ last' = Call("SetApprovalForAll", caller, caller, operator, <<>>, <<>>,
                            approved, err)
            /\ prev' = balance
            /\ IF err = "ok"
               THEN /\ approval' = [approval EXCEPT ![<<caller, operator>>] =
                                        IF approved THEN "true" ELSE "false"]
                    /\ events' = <<[name |-> "ApprovalForAll", owner |-> caller,
                                    operator |-> operator, approved |-> approved]>>
                    /\ height' = height + 1
               ELSE UNCHANGED <<approval, height>> /\ events' = <<>>
            /\ UNCHANGED <<options, balance, uri>>
            /\ UNCHANGED <<vars20, vars721>>

\* SmartContract.IsApprovedForAll: a query, answered by _isApprovedForAll with
\* no check before it; `approved` of the call holds the answer.
IsApprovedForAll ==
    /\ Ready
    /\ \E caller \in Clients, account \in Clients, operator \in Clients :
        /\ last' = Call("IsApprovedForAll", caller, account, operator, <<>>, <<>>,
                        _isApprovedForAll(account, operator), "ok")
        /\ prev' = balance
        /\ events' = <<>>
        /\ UNCHANGED <<options, balance, approval, uri, height>>
        /\ UNCHANGED <<vars20, vars721>>

\* SmartContract.SetURI
URIs == {"https://kalp/{id}.json", "https://kalp/token.json"}
ContainsIdPlaceholder(u) == u = "https://kalp/{id}.json"

SetURI ==
    /\ Ready
    /\ \E caller \in Clients, u \in URIs :
        LET err == IF ~checkInitialized THEN "NotInitialized"
                   ELSE IF authorizationHelper(caller) # "ok" THEN "Unauthorized"
                   ELSE IF ~ContainsIdPlaceholder(u) THEN "InvalidURI" ELSE "ok"
        IN  /\ last' = Call("SetURI", caller, "", u, <<>>, <<>>, FALSE, err)
            /\ prev' = balance
            /\ events' = <<>>
            /\ IF err = "ok"
               THEN uri' = u /\ height' = height + 1
               ELSE UNCHANGED <<uri, height>>
            /\ UNCHANGED <<options, balance, approval>>
            /\ UNCHANGED <<vars20, vars721>>

\* SmartContract.Initialize
Names == {"Kard"}
Symbols == {"KRD"}

Initialize ==
    /\ Ready
    /\ \E caller \in Clients, name \in Names, symbol \in Symbols :
        LET err == IF ClientMSPID(caller) # minterMSPID THEN "Unauthorized"
                   ELSE IF options.name # "" THEN "AlreadyExists" ELSE "ok"
        IN  /\ last' = Call("Initialize", caller, "", name, <<>>, <<>>, FALSE, err)
            /\ prev' = balance
            /\ events' = <<>>
            /\ IF err = "ok"
               THEN options' = [name |-> name, symbol |-> symbol] /\ height' = height + 1
               ELSE UNCHANGED <<options, height>>
            /\ UNCHANGED <<balance, approval, uri>>
            /\ UNCHANGED <<vars20, vars721>>

\* The client takes the response; the next invocation can be proposed.
Respond ==
    /\ last # NoCall
    /\ last' = NoCall
    /\ prev' = balance
    /\ events' = <<>>
    /\ UNCHANGED <<options, balance, approval, uri, height>>
    /\ UNCHANGED <<vars20, vars721>>

\* ------------------------------------------------ multi-token: the ledger
\* The ledger the exploration starts from: the contract as deployed (no
\* options, no entry), or an initialised contract whose account b already
\* holds partitions of token 1 credited by a, by b itself and by c, account a
\* a partition credited by b, and account b a partition of token 2.  Every
\* such ledger is produced by Mint and TransferFrom invocations.
GenesisAmounts == {nil, 3, 5, MaxUint64}

\* The aggregate of the entries of (account, id), as a number.
RECURSIVE SumOver(_, _)
SumOver(f, S) ==
    IF S = {} THEN 0
    ELSE LET x == CHOOSE y \in S : TRUE IN f[x] + SumOver(f, S \ {x})

SumEntries(st, account, id) ==
    IF account \in Clients
    THEN SumOver([o \in Clients |-> ParseUint(st[<<account, id, o>>])], Clients)
    ELSE 0

EmptyBalance == [k \in BalanceKeys |-> nil]

GenesisBalances ==
    {[k \in BalanceKeys |->
        IF k = <<"b", 1, "a">> THEN xa
        ELSE IF k = <<"b", 1, "b">> THEN xb
        ELSE IF k = <<"b", 1, "c">> THEN xc
        ELSE IF k = <<"a", 1, "b">> THEN ya
        ELSE IF k = <<"b", 2, "a">> THEN zb
        ELSE nil] :
        xa \in GenesisAmounts, xb \in GenesisAmounts, xc \in GenesisAmounts,
        ya \in {nil, MaxUint64}, zb \in {nil, 5}}

\* The approvals of the initial ledger: b has never named a as operator, has
\* approved a, or has approved a and revoked the approval.
GenesisApprovals ==
    {[p \in Clients \X Clients |-> IF p = <<"b", "a">> THEN x ELSE "nil"] :
        x \in {"nil", "true", "false"}}

Init1155 ==
    /\ \/ options = [name |-> "", symbol |-> ""] /\ balance = EmptyBalance
       \/ /\ options = [name |-> "Kard", symbol |-> "KRD"]
          /\ balance \in GenesisBalances
          /\ \A account \in Clients, id \in TokenIds :
                SumEntries(balance, account, id) <= MaxUint64
    /\ approval \in GenesisApprovals
    \* the approvals vary on the ledgers where b holds both token ids and
    \* has no partition credited by c
    /\ approval[<<"b", "a">>] # "nil" =>
          /\ options.name # ""
          /\ balance[<<"b", 1, "c">>] = nil
          /\ balance[<<"a", 1, "b">>] = nil
          /\ balance[<<"b", 2, "a">>] = 5
    /\ uri = ""
    /\ height = 0
    /\ last = NoCall
    /\ prev = balance
    /\ events = <<>>

\* The multi-token contract as deployed, for the runs of the other contract.
Deployed1155 ==
    /\ options = [name |-> "", symbol |-> ""]
    /\ balance = EmptyBalance
    /\ approval = [p \in Clients \X Clients |-> "nil"]
    /\ uri = ""
    /\ height = 0
    /\ last = NoCall
    /\ prev = balance
    /\ events = <<>>

\* ====================================================== fungible contract
\* ---------------------------------------------------------------- bounds
\* The largest representable int, scaled down (2^63-1 in the code).
MaxInt == 7
\* Committed transactions of the fungible contract that are explored.
MaxHeight20 == 4

\* ---------------------------------------------------------------- inputs
totalSupplyKey == "totalSupply"
nameKey == "name"
symbolKey == "symbol"
decimalsKey == "decimals"

\* Recipient, spender and account arguments: any string, the keys under
\* which the contract keeps its own records included.
Accounts20 == Clients \cup {totalSupplyKey, nameKey}
Amounts20 == {-1, 0, 1, 2, MaxInt}
Keys20 == Clients \cup {totalSupplyKey, nameKey, symbolKey, decimalsKey}

\* Stored values: absent, the decimal text of an int, or other text.
Absent == [kind |-> "nil", n |-> 0, s |-> ""]
Itoa(n) == [kind |-> "int", n |-> n, s |-> ""]
Text(s) == [kind |-> "str", n |-> 0, s |-> s]
\* strconv.Atoi with its error dropped: 0 for what is no decimal text.
Atoi(v) == IF v.kind = "int" THEN v.n ELSE 0

\* add and sub over int.
add20(b, q) ==
    IF b + q > MaxInt \/ b + q < -MaxInt - 1
    THEN [err |-> "ArithmeticOverflow", val |-> 0]
    ELSE [err |-> "ok", val |-> b + q]

sub20(b, q) ==
    IF q > b
    THEN [err |-> "InsufficientFunds", val |-> 0]
    ELSE [err |-> "ok", val |-> b - q]

checkInitialized20(ws) == ws[nameKey] # Absent

NoCall20 == [op |-> "none", caller |-> "", from |-> "", to |-> "", value |-> 0, err |-> "ok"]
Call20(op, caller, from, to, value, err) ==
    [op |-> op, caller |-> caller, from |-> from, to |-> to, value |-> value, err |-> err]

event(from, to, value, name) == [name |-> name, from |-> from, to |-> to, value |-> value]

Ready20 == last20 = NoCall20 /\ height20 < MaxHeight20

\* The host's commit rule for the fungible contract.
Commit20(call, r, evs) ==
    /\ last20' = call
    /\ prev20' = [ws |-> ws20, allowance |-> allowance20]
    /\ IF r.err = "ok"
       THEN /\ ws20' = r.ws
            /\ allowance20' = r.allowance
            /\ events20' = evs
            /\ height20' = height20 + 1
       ELSE /\ UNCHANGED <<ws20, allowance20, height20>>
            /\ events20' = <<>>
    /\ UNCHANGED <<vars1155, vars721>>

Fail20(err) == [err |-> err, ws |-> ws20, allowance |-> allowance20]
Ok20(ws, al) == [err |-> "ok", ws |-> ws, allowance |-> al]

\* TokenERC20Contract.Initialize
Decimals == {2}

\* Initialize that does not look for options already set.
InitializeResult20_NoExistsCheck(caller, name, symbol, decimals) ==
    IF ClientMSPID(caller) # "mailabs" THEN Fail20("Unauthorized")
    ELSE Ok20([ws20 EXCEPT ![nameKey] = Text(name), ![symbolKey] = Text(symbol),
                           ![decimalsKey] = Itoa(decimals)], allowance20)

InitializeResult20(caller, name, symbol, decimals) ==
    IF ClientMSPID(caller) # "mailabs" THEN Fail20("Unauthorized")
    ELSE IF ws20[nameKey] # Absent THEN Fail20("AlreadyExists")
    ELSE Ok20([ws20 EXCEPT ![nameKey] = Text(name), ![symbolKey] = Text(symbol),
                           ![decimalsKey] = Itoa(decimals)], allowance20)

ERC20Initialize ==
    /\ Ready20
    /\ \E caller \in Clients, name \in Names, symbol \in Symbols, decimals \in Decimals :
        LET r == InitializeResult20(caller, name, symbol, decimals)
        IN  Commit20(Call20("Initialize", caller, "", name, decimals, r.err), r, <<>>)

\* Mint that credits the minter and leaves totalSupply as it was.
MintResult20_KeepsSupply(minter, amount) ==
    IF ~checkInitialized20(ws20) THEN Fail20("NotInitialized")
    ELSE IF ClientMSPID(minter) # "mailabs" THEN Fail20("Unauthorized")
    ELSE IF amount <= 0 THEN Fail20("InvalidAmount")
    ELSE LET updatedBalance == add20(Atoi(ws20[minter]), amount)
         IN  IF updatedBalance.err # "ok" THEN Fail20(updatedBalance.err)
             ELSE Ok20([ws20 EXCEPT ![minter] = Itoa(updatedBalance.val)], allowance20)

\* TokenERC20Contract.Mint
MintResult20(minter, amount) ==
    IF ~checkInitialized20(ws20) THEN Fail20("NotInitialized")
    ELSE IF ClientMSPID(minter) # "mailabs" THEN Fail20("Unauthorized")
    ELSE IF amount <= 0 THEN Fail20("InvalidAmount")
    ELSE LET updatedBalance == add20(Atoi(ws20[minter]), amount)
         IN  IF updatedBalance.err # "ok" THEN Fail20(updatedBalance.err)
             ELSE LET ws1 == [ws20 EXCEPT ![minter] = Itoa(updatedBalance.val)]
                      totalSupply == add20(Atoi(ws1[totalSupplyKey]), amount)
                  IN  IF totalSupply.err # "ok" THEN Fail20(totalSupply.err)
                      ELSE Ok20([ws1 EXCEPT ![totalSupplyKey] = Itoa(totalSupply.val)],
                                allowance20)

ERC20Mint ==
    /\ Ready20
    /\ \E minter \in Clients, amount \in Amounts20 :
        LET r == MintResult20(minter, amount)
        IN  Commit20(Call20("Mint", minter, "0x0", minter, amount, r.err), r,
                     <<event("0x0", minter, amount, "Transfer")>>)

\* Burn with plain subtraction in place of sub.
BurnResult20_Unchecked(minter, amount) ==
    IF ~checkInitialized20(ws20) THEN Fail20("NotInitialized")
    ELSE IF ClientMSPID(minter) # "mailabs" THEN Fail20("Unauthorized")
    ELSE IF amount <= 0 THEN Fail20("InvalidAmount")
    ELSE IF ws20[minter] = Absent THEN Fail20("NotFound")
    ELSE LET ws1 == [ws20 EXCEPT ![minter] = Itoa(Atoi(ws20[minter]) - amount)]
         IN  IF ws1[totalSupplyKey] = Absent THEN Fail20("NotFound")
             ELSE Ok20([ws1 EXCEPT ![totalSupplyKey] =
                            Itoa(Atoi(ws1[totalSupplyKey]) - amount)], allowance20)

\* TokenERC20Contract.Burn
BurnResult20(minter, amount) ==
    IF ~checkInitialized20(ws20) THEN Fail20("NotInitialized")
    ELSE IF ClientMSPID(minter) # "mailabs" THEN Fail20("Unauthorized")
    ELSE IF amount <= 0 THEN Fail20("InvalidAmount")
    ELSE IF ws20[minter] = Absent THEN Fail20("NotFound")
    ELSE LET updatedBalance == sub20(Atoi(ws20[minter]), amount)
         IN  IF updatedBalance.err # "ok" THEN Fail20(updatedBalance.err)
             ELSE LET ws1 == [ws20 EXCEPT ![minter] = Itoa(updatedBalance.val)]
                  IN  IF ws1[totalSupplyKey] = Absent THEN Fail20("NotFound")
                      ELSE LET totalSupply == sub20(Atoi(ws1[totalSupplyKey]), amount)
                           IN  IF totalSupply.err # "ok" THEN Fail20(totalSupply.err)
                               ELSE Ok20([ws1 EXCEPT ![totalSupplyKey] =
                                              Itoa(totalSupply.val)], allowance20)

ERC20Burn ==
    /\ Ready20
    /\ \E minter \in Clients, amount \in Amounts20 :
        LET r == BurnResult20(minter, amount)
        IN  Commit20(Call20("Burn", minter, minter, "0x0", amount, r.err), r,
                     <<event(minter, "0x0", amount, "Transfer")>>)

\* transferHelper that credits the recipient and leaves the sender's balance.
transferHelper_KeepsSender(ws, from, to, value) ==
    IF from = to THEN [err |-> "SelfOperation", ws |-> ws]
    ELSE IF value < 0 THEN [err |-> "InvalidAmount", ws |-> ws]
    ELSE IF ws[from] = Absent THEN [err |-> "NotFound", ws |-> ws]
    ELSE IF Atoi(ws[from]) < value THEN [err |-> "InsufficientFunds", ws |-> ws]
    ELSE LET toUpdatedBalance == add20(Atoi(ws[to]), value)
         IN  IF toUpdatedBalance.err # "ok" THEN [err |-> toUpdatedBalance.err, ws |-> ws]
             ELSE [err |-> "ok", ws |-> [ws EXCEPT ![to] = Itoa(toUpdatedBalance.val)]]

\* transferHelper: both balances are read, then both are written.
transferHelper(ws, from, to, value) ==
    IF from = to THEN [err |-> "SelfOperation", ws |-> ws]
    ELSE IF value < 0 THEN [err |-> "InvalidAmount", ws |-> ws]
    ELSE IF ws[from] = Absent THEN [err |-> "NotFound", ws |-> ws]
    ELSE IF Atoi(ws[from]) < value THEN [err |-> "InsufficientFunds", ws |-> ws]
    ELSE LET fromUpdatedBalance == sub20(Atoi(ws[from]), value)
             toUpdatedBalance == add20(Atoi(ws[to]), value)
         IN  IF fromUpdatedBalance.err # "ok" THEN [err |-> fromUpdatedBalance.err, ws |-> ws]
             ELSE IF toUpdatedBalance.err # "ok" THEN [err |-> toUpdatedBalance.err, ws |-> ws]
             ELSE [err |-> "ok",
                   ws |-> [ws EXCEPT ![from] = Itoa(fromUpdatedBalance.val),
                                     ![to] = Itoa(toUpdatedBalance.val)]]

\* Transfer that admits the clients of the minter organisation only.
TransferResult20_MinterOnly(clientID, recipient, amount) ==
    IF ~checkInitialized20(ws20) THEN Fail20("NotInitialized")
    ELSE IF ClientMSPID(clientID) # "mailabs" THEN Fail20("Unauthorized")
    ELSE LET t == transferHelper(ws20, clientID, recipient, amount)
         IN  IF t.err # "ok" THEN Fail20(t.err) ELSE Ok20(t.ws, allowance20)

\* TokenERC20Contract.Transfer
TransferResult20(clientID, recipient, amount) ==
    IF ~checkInitialized20(ws20) THEN Fail20("NotInitialized")
    ELSE LET t == transferHelper(ws20, clientID, recipient, amount)
         IN  IF t.err # "ok" THEN Fail20(t.err) ELSE Ok20(t.ws, allowance20)

ERC20Transfer ==
    /\ Ready20
    /\ \E clientID \in Clients, recipient \in Accounts20, amount \in Amounts20 :
        LET r == TransferResult20(clientID, recipient, amount)
        IN  Commit20(Call20("Transfer", clientID, clientID, recipient, amount, r.err), r,
                     <<event(clientID, recipient, amount, "Transfer")>>)

\* Approve that adds the amount to the allowance already stored.
ApproveResult20_Adds(owner, spender, value) ==
    IF ~checkInitialized20(ws20) THEN Fail20("NotInitialized")
    ELSE Ok20(ws20, [allowance20 EXCEPT ![<<owner, spender>>] =
                         Itoa(Atoi(allowance20[<<owner, spender>>]) + value)])

\* TokenERC20Contract.Approve
ApproveResult20(owner, spender, value) ==
    IF ~checkInitialized20(ws20) THEN Fail20("NotInitialized")
    ELSE Ok20(ws20, [allowance20 EXCEPT ![<<owner, spender>>] = Itoa(value)])

ERC20Approve ==
    /\ Ready20
    /\ \E owner \in Clients, spender \in Clients, value \in Amounts20 :
        LET r == ApproveResult20(owner, spender, value)
        IN  Commit20(Call20("Approve", owner, owner, spender, value, r.err), r,
                     <<event(owner, spender, value, "Approval")>>)

\* TransferFrom that leaves the allowance as it was.
TransferFromResult20_KeepsAllowance(spender, from, to, value) ==
    IF ~checkInitialized20(ws20) THEN Fail20("NotInitialized")
    ELSE LET currentAllowance == Atoi(allowance20[<<from, spender>>])
         IN  IF currentAllowance < value THEN Fail20("AllowanceExceeded")
             ELSE LET t == transferHelper(ws20, from, to, value)
                  IN  IF t.err # "ok" THEN Fail20(t.err)
                      ELSE Ok20(t.ws, allowance20)

\* TokenERC20Contract.TransferFrom
TransferFromResult20(spender, from, to, value) ==
    IF ~checkInitialized20(ws20) THEN Fail20("NotInitialized")
    ELSE LET currentAllowance == Atoi(allowance20[<<from, spender>>])
         IN  IF currentAllowance < value THEN Fail20("AllowanceExceeded")
             ELSE LET t == transferHelper(ws20, from, to, value)
                      updatedAllowance == sub20(currentAllowance, value)
                  IN  IF t.err # "ok" THEN Fail20(t.err)
                      ELSE IF updatedAllowance.err # "ok" THEN Fail20(updatedAllowance.err)
                      ELSE Ok20(t.ws, [allowance20 EXCEPT ![<<from, spender>>] =
                                           Itoa(updatedAllowance.val)])

ERC20TransferFrom ==
    /\ Ready20
    /\ \E spender \in Clients, from \in Accounts20, to \in Accounts20, value \in Amounts20 :
        LET r == TransferFromResult20(spender, from, to, value)
        IN  Commit20(Call20("TransferFrom", spender, from, to, value, r.err), r,
                     <<event(from, to, value, "Transfer")>>)

ERC20Respond ==
    /\ last20 # NoCall20
    /\ last20' = NoCall20
    /\ prev20' = [ws |-> ws20, allowance |-> allowance20]
    /\ events20' = <<>>
    /\ UNCHANGED <<ws20, allowance20, height20>>
    /\ UNCHANGED <<vars1155, vars721>>

\* The fungible contract as deployed: an empty world state.
Init20 ==
    /\ ws20 = [k \in Keys20 |-> Absent]
    /\ allowance20 = [p \in Accounts20 \X Accounts20 |-> Absent]
    /\ height20 = 0
    /\ last20 = NoCall20
    /\ prev20 = [ws |-> ws20, allowance |-> allowance20]
    /\ events20 = <<>>

Next20 ==
    \/ ERC20Initialize
    \/ ERC20Mint
    \/ ERC20Burn
    \/ ERC20Transfer
    \/ ERC20Approve
    \/ ERC20TransferFrom
    \/ ERC20Respond

\* ================================================== non-fungible contract
\* ---------------------------------------------------------------- bounds
\* Committed transactions of the non-fungible contract that are explored.
MaxHeight721 == 5

\* ---------------------------------------------------------------- inputs
TokenIds721 == {"t1", "t2"}
TokenURIs == {"ipfs://t"}

\* An Nft record as stored under nftPrefix; NoNft is the absent entry.
Nft(owner, tokenURI, approved) ==
    [exists |-> TRUE, owner |-> owner, tokenURI |-> tokenURI, approved |-> approved]
NoNft == [exists |-> FALSE, owner |-> "", tokenURI |-> "", approved |-> ""]

checkInitialized1 == options721.name # ""

\* _nftExists: the entry is there and not empty.
_nftExists(tokenId) == nft[tokenId].exists

\* _readNFT: the record, or the error of unmarshalling an absent entry.
_readNFT(tokenId) ==
    IF nft[tokenId].exists THEN [err |-> "ok", nft |-> nft[tokenId]]
    ELSE [err |-> "NotFound", nft |-> NoNft]

\* TokenERC721Contract.IsApprovedForAll
ERC721IsApprovedForAll(owner, operator) ==
    IF ~checkInitialized1 THEN [err |-> "NotInitialized", val |-> FALSE]
    ELSE IF <<owner, operator>> \notin DOMAIN approval721 THEN [err |-> "ok", val |-> FALSE]
    ELSE [err |-> "ok", val |-> approval721[<<owner, operator>>] = "true"]

NoCall721 ==
    [op |-> "none", caller |-> "", from |-> "", to |-> "", tokenId |-> "",
     approved |-> FALSE, err |-> "ok"]

Call721(op, caller, from, to, tokenId, approved, err) ==
    [op |-> op, caller |-> caller, from |-> from, to |-> to, tokenId |-> tokenId,
     approved |-> approved, err |-> err]

\* The Transfer event of the non-fungible contract.
Transfer(from, to, tokenId) ==
    [name |-> "Transfer", from |-> from, to |-> to, tokenId |-> tokenId]

Ready721 == last721 = NoCall721 /\ height721 < MaxHeight721

Store721 == [nft |-> nft, index |-> index721, approval |-> approval721]

\* The host's commit rule for the non-fungible contract.
Commit721(call, r, evs) ==
    /\ last721' = call
    /\ prev721' = Store721
    /\ IF r.err = "ok"
       THEN /\ nft' = r.nft
            /\ index721' = r.index
            /\ approval721' = r.approval
            /\ events721' = evs
            /\ height721' = height721 + 1
       ELSE /\ UNCHANGED <<nft, index721, approval721, height721>>
            /\ events721' = <<>>
    /\ UNCHANGED options721
    /\ UNCHANGED <<vars1155, vars20>>

Fail721(err) == [err |-> err, nft |-> nft, index |-> index721, approval |-> approval721]
Ok721(n, i, a) == [err |-> "ok", nft |-> n, index |-> i, approval |-> a]

\* TokenERC721Contract.Initialize
ERC721Initialize ==
    /\ Ready721
    /\ \E caller \in Clients, name \in Names, symbol \in Symbols :
        LET err == IF ClientMSPID(caller) # "mailabs" THEN "Unauthorized"
                   ELSE IF options721.name # "" THEN "AlreadyExists" ELSE "ok"
        IN  /\ last721' = Call721("Initialize", caller, "", name, "", FALSE, err)
            /\ prev721' = Store721
            /\ events721' = <<>>
            /\ IF err = "ok"
               THEN /\ options721' = [name |-> name, symbol |-> symbol]
                    /\ height721' = height721 + 1
               ELSE UNCHANGED <<options721, height721>>
            /\ UNCHANGED <<nft, index721, approval721>>
            /\ UNCHANGED <<vars1155, vars20>>

\* MintWithTokenURI that does not look for an existing record.
MintWithTokenURIResult_NoExistsCheck(minter, tokenId, tokenURI) ==
    IF ~checkInitialized1 THEN Fail721("NotInitialized")
    ELSE IF ClientMSPID(minter) # "mailabs" THEN Fail721("Unauthorized")
    ELSE Ok721([nft EXCEPT ![tokenId] = Nft(minter, tokenURI, "")],
               index721 \cup {<<minter, tokenId>>}, approval721)

\* TokenERC721Contract.MintWithTokenURI
MintWithTokenURIResult(minter, tokenId, tokenURI) ==
    IF ~checkInitialized1 THEN Fail721("NotInitialized")
    ELSE IF ClientMSPID(minter) # "mailabs" THEN Fail721("Unauthorized")
    ELSE IF _nftExists(tokenId) THEN Fail721("AlreadyExists")
    ELSE Ok721([nft EXCEPT ![tokenId] = Nft(minter, tokenURI, "")],
               index721 \cup {<<minter, tokenId>>}, approval721)

ERC721MintWithTokenURI ==
    /\ Ready721
    /\ \E minter \in Clients, tokenId \in TokenIds721, tokenURI \in TokenURIs :
        LET r == MintWithTokenURIResult(minter, tokenId, tokenURI)
        IN  Commit721(Call721("MintWithTokenURI", minter, "0x0", minter, tokenId, FALSE, r.err),
                      r, <<Transfer("0x0", minter, tokenId)>>)

\* Approve that accepts any caller.
ApproveResult721_AnyCaller(sender, operator, tokenId) ==
    IF ~checkInitialized1 THEN Fail721("NotInitialized")
    ELSE LET rd == _readNFT(tokenId)
         IN  IF rd.err # "ok" THEN Fail721(rd.err)
             ELSE Ok721([nft EXCEPT ![tokenId] = Nft(rd.nft.owner, rd.nft.tokenURI, operator)],
                        index721, approval721)

\* TokenERC721Contract.Approve: the record is written, no event is set.
ApproveResult721(sender, operator, tokenId) ==
    IF ~checkInitialized1 THEN Fail721("NotInitialized")
    ELSE LET rd == _readNFT(tokenId)
             owner == rd.nft.owner
             operatorApproval == ERC721IsApprovedForAll(owner, sender)
         IN  IF rd.err # "ok" THEN Fail721(rd.err)
             ELSE IF operatorApproval.err # "ok" THEN Fail721(operatorApproval.err)
             ELSE IF owner # sender /\ ~operatorApproval.val THEN Fail721("Unauthorized")
             ELSE Ok721([nft EXCEPT ![tokenId] = Nft(owner, rd.nft.tokenURI, operator)],
                        index721, approval721)

ERC721Approve ==
    /\ Ready721
    /\ \E sender \in Clients, operator \in Clients, tokenId \in TokenIds721 :
        LET r == ApproveResult721(sender, operator, tokenId)
        IN  Commit721(Call721("Approve", sender, sender, operator, tokenId, FALSE, r.err),
                      r, <<>>)

\* TokenERC721Contract.SetApprovalForAll
SetApprovalForAllResult721(sender, operator, approved) ==
    IF ~checkInitialized1 THEN Fail721("NotInitialized")
    ELSE Ok721(nft, index721,
               [approval721 EXCEPT ![<<sender, operator>>] =
                    IF approved THEN "true" ELSE "false"])

ERC721SetApprovalForAll ==
    /\ Ready721
    /\ \E sender \in Clients, operator \in Clients, approved \in BOOLEAN :
        LET r == SetApprovalForAllResult721(sender, operator, approved)
        IN  Commit721(Call721("SetApprovalForAll", sender, sender, operator, "", approved,
                              r.err),
                      r, <<[name |-> "ApprovalForAll", owner |-> sender,
                            operator |-> operator, approved |-> approved]>>)

\* TransferFrom that leaves the approved operator on the record.
TransferFromResult721_KeepsApproved(sender, from, to, tokenId) ==
    IF ~checkInitialized1 THEN Fail721("NotInitialized")
    ELSE LET rd == _readNFT(tokenId)
             owner == rd.nft.owner
             operator == rd.nft.approved
             operatorApproval == ERC721IsApprovedForAll(owner, sender)
         IN  IF rd.err # "ok" THEN Fail721(rd.err)
             ELSE IF operatorApproval.err # "ok" THEN Fail721(operatorApproval.err)
             ELSE IF owner # sender /\ operator # sender /\ ~operatorApproval.val
             THEN Fail721("Unauthorized")
             ELSE IF owner # from THEN Fail721("Unauthorized")
             ELSE Ok721([nft EXCEPT ![tokenId] = Nft(to, rd.nft.tokenURI, operator)],
                        (index721 \ {<<from, tokenId>>}) \cup {<<to, tokenId>>},
                        approval721)

\* TokenERC721Contract.TransferFrom
\* TransferFrom that writes the recipient's index entry before it deletes the
\* sender's.
TransferFromResult721_DeleteLast(sender, from, to, tokenId) ==
    IF ~checkInitialized1 THEN Fail721("NotInitialized")
    ELSE LET rd == _readNFT(tokenId)
             owner == rd.nft.owner
             operator == rd.nft.approved
             operatorApproval == ERC721IsApprovedForAll(owner, sender)
         IN  IF rd.err # "ok" THEN Fail721(rd.err)
             ELSE IF operatorApproval.err # "ok" THEN Fail721(operatorApproval.err)
             ELSE IF owner # sender /\ operator # sender /\ ~operatorApproval.val
             THEN Fail721("Unauthorized")
             ELSE IF owner # from THEN Fail721("Unauthorized")
             ELSE Ok721([nft EXCEPT ![tokenId] = Nft(to, rd.nft.tokenURI, "")],
                        (index721 \cup {<<to, tokenId>>}) \ {<<from, tokenId>>},
                        approval721)

TransferFromResult721(sender, from, to, tokenId) ==
    IF ~checkInitialized1 THEN Fail721("NotInitialized")
    ELSE LET rd == _readNFT(tokenId)
             owner == rd.nft.owner
             operator == rd.nft.approved
             operatorApproval == ERC721IsApprovedForAll(owner, sender)
         IN  IF rd.err # "ok" THEN Fail721(rd.err)
             ELSE IF operatorApproval.err # "ok" THEN Fail721(operatorApproval.err)
             ELSE IF owner # sender /\ operator # sender /\ ~operatorApproval.val
             THEN Fail721("Unauthorized")
             ELSE IF owner # from THEN Fail721("Unauthorized")
             ELSE Ok721([nft EXCEPT ![tokenId] = Nft(to, rd.nft.tokenURI, "")],
                        (index721 \ {<<from, tokenId>>}) \cup {<<to, tokenId>>},
                        approval721)

ERC721TransferFrom ==
    /\ Ready721
    /\ \E sender \in Clients, from \in Clients, to \in AccountArgs, tokenId \in TokenIds721 :
        LET r == TransferFromResult721(sender, from, to, tokenId)
        IN  Commit721(Call721("TransferFrom", sender, from, to, tokenId, FALSE, r.err),
                      r, <<Transfer(from, to, tokenId)>>)

\* Burn that also accepts the approved operator of the record.
BurnResult721_AnyApproved(owner, tokenId) ==
    IF ~checkInitialized1 THEN Fail721("NotInitialized")
    ELSE LET rd == _readNFT(tokenId)
         IN  IF rd.err # "ok" THEN Fail721(rd.err)
             ELSE IF rd.nft.owner # owner /\ rd.nft.approved # owner THEN Fail721("Unauthorized")
             ELSE Ok721([nft EXCEPT ![tokenId] = NoNft],
                        index721 \ {<<rd.nft.owner, tokenId>>}, approval721)

\* TokenERC721Contract.Burn
BurnResult721(owner, tokenId) ==
    IF ~checkInitialized1 THEN Fail721("NotInitialized")
    ELSE LET rd == _readNFT(tokenId)
         IN  IF rd.err # "ok" THEN Fail721(rd.err)
             ELSE IF rd.nft.owner # owner THEN Fail721("Unauthorized")
             ELSE Ok721([nft EXCEPT ![tokenId] = NoNft],
                        index721 \ {<<owner, tokenId>>}, approval721)

ERC721Burn ==
    /\ Ready721
    /\ \E owner \in Clients, tokenId \in TokenIds721 :
        LET r == BurnResult721(owner, tokenId)
        IN  Commit721(Call721("Burn", owner, owner, "0x0", tokenId, FALSE, r.err),
                      r, <<Transfer(owner, "0x0", tokenId)>>)

ERC721Respond ==
    /\ last721 # NoCall721
    /\ last721' = NoCall721
    /\ prev721' = Store721
    /\ events721' = <<>>
    /\ UNCHANGED <<options721, nft, index721, approval721, height721>>
    /\ UNCHANGED <<vars1155, vars20>>

\* The non-fungible contract as deployed: no options, no entry.
Deployed721 ==
    /\ options721 = [name |-> "", symbol |-> ""]
    /\ nft = [t \in TokenIds721 |-> NoNft]
    /\ index721 = {}
    /\ approval721 = [p \in Clients \X Clients |-> "nil"]
    /\ last721 = NoCall721
    /\ prev721 = Store721
    /\ events721 = <<>>

Init721 == Deployed721 /\ height721 = 0

Next721 ==
    \/ ERC721Initialize
    \/ ERC721MintWithTokenURI
    \/ ERC721Approve
    \/ ERC721SetApprovalForAll
    \/ ERC721TransferFrom
    \/ ERC721Burn
    \/ ERC721Respond

InitERC721 == Deployed1155 /\ Init20 /\ Init721

Spec721 == InitERC721 /\ [][Next721]_vars

InitERC20 == Init20 /\ Deployed1155 /\ Init721

Spec20 == InitERC20 /\ [][Next20]_vars

\* ------------------------------------------- the three contracts together
\* One of the three contracts is exercised, from its deployed state or from a
\* state in which it was initialised as ("Gold", "GLD"); the other two have
\* no transaction left to explore.  The contracts are separate deployments
\* with separate world states.
Idle1155 ==
    /\ options = [name |-> "", symbol |-> ""]
    /\ balance = EmptyBalance
    /\ approval = [p \in Clients \X Clients |-> "nil"]
    /\ uri = ""
    /\ height = MaxHeight
    /\ last = NoCall
    /\ prev = balance
    /\ events = <<>>

Live1155 ==
    /\ \/ options = [name |-> "", symbol |-> ""] /\ balance = EmptyBalance
       \/ /\ options = [name |-> "Gold", symbol |-> "GLD"]
          /\ balance = [EmptyBalance EXCEPT ![<<"b", 1, "a">>] = 5, ![<<"c", 2, "c">>] = 3]
    /\ approval = [p \in Clients \X Clients |-> "nil"]
    /\ uri = ""
    /\ height = 0
    /\ last = NoCall
    /\ prev = balance
    /\ events = <<>>

Idle20 ==
    /\ ws20 = [k \in Keys20 |-> Absent]
    /\ allowance20 = [p \in Accounts20 \X Accounts20 |-> Absent]
    /\ height20 = MaxHeight20
    /\ last20 = NoCall20
    /\ prev20 = [ws |-> ws20, allowance |-> allowance20]
    /\ events20 = <<>>

Live20 ==
    /\ \/ ws20 = [k \in Keys20 |-> Absent]
       \/ ws20 = [k \in Keys20 |->
                    IF k = nameKey THEN Text("Gold")
                    ELSE IF k = symbolKey THEN Text("GLD")
                    ELSE IF k = decimalsKey THEN Itoa(0)
                    ELSE IF k = "c" THEN Itoa(1)
                    ELSE IF k = totalSupplyKey THEN Itoa(1)
                    ELSE Absent]
    /\ allowance20 = [p \in Accounts20 \X Accounts20 |-> Absent]
    /\ height20 = MaxHeight20 - 2
    /\ last20 = NoCall20
    /\ prev20 = [ws |-> ws20, allowance |-> allowance20]
    /\ events20 = <<>>

Idle721 == Deployed721 /\ height721 = MaxHeight721

Live721 ==
    /\ options721 \in {[name |-> "", symbol |-> ""], [name |-> "Gold", symbol |-> "GLD"]}
    /\ nft = [t \in TokenIds721 |-> NoNft]
    /\ index721 = {}
    /\ approval721 = [p \in Clients \X Clients |-> "nil"]
    /\ height721 = MaxHeight721 - 2
    /\ last721 = NoCall721
    /\ prev721 = Store721
    /\ events721 = <<>>

InitAll ==
    \/ Live1155 /\ Idle20 /\ Idle721
    \/ Idle1155 /\ Live20 /\ Idle721
    \/ Idle1155 /\ Idle20 /\ Live721

NextAll ==
    \/ Initialize
    \/ Mint
    \/ MintBatch
    \/ Burn
    \/ BurnBatch
    \/ TransferFrom
    \/ BatchTransferFrom
    \/ SetApprovalForAll
    \/ IsApprovedForAll
    \/ SetURI
    \/ Respond
    \/ ERC20Initialize
    \/ ERC20Mint
    \/ ERC20Burn
    \/ ERC20Transfer
    \/ ERC20Approve
    \/ ERC20TransferFrom
    \/ ERC20Respond
    \/ ERC721Initialize
    \/ ERC721MintWithTokenURI
    \/ ERC721Approve
    \/ ERC721SetApprovalForAll
    \/ ERC721TransferFrom
    \/ ERC721Burn
    \/ ERC721Respond

SpecAll == InitAll /\ [][NextAll]_vars

Init == Init1155 /\ Init20 /\ Init721
Next ==
    \/ Initialize
    \/ Mint
    \/ MintBatch
    \/ Burn
    \/ BurnBatch
    \/ TransferFrom
    \/ BatchTransferFrom
    \/ SetApprovalForAll
    \/ IsApprovedForAll
    \/ SetURI
    \/ Respond

Spec == Init /\ [][Next]_vars

\* ================================================================= claims
\* The sum of the balance entries: every plain key that holds no record of
\* the contract itself.
BalanceKeys20 == Keys20 \ {totalSupplyKey, symbolKey, decimalsKey}
SumBalances20 == SumOver([c \in BalanceKeys20 |-> Atoi(ws20[c])], BalanceKeys20)

\* C1: in every state of the fungible ledger reached from Initialize by Mint,
\* Burn, Transfer, TransferFrom and Approve calls with any caller and any
\* recipient string, the sum of the account balance entries equals the stored
\* totalSupply.
C1_SupplyIsSumOfBalances == SumBalances20 = Atoi(ws20[totalSupplyKey])


\* ------------------------------------------------------------ multi-token
\* SmartContract.BalanceOf
BalanceOf(account, id) ==
    IF ~checkInitialized THEN [err |-> "NotInitialized", val |-> 0]
    ELSE balanceOfHelper(balance, account, id)

\* The senders that have an entry for (account, id).
Entries(st, account, id) ==
    IF account \in Clients THEN {o \in Clients : st[<<account, id, o>>] # nil} ELSE {}

\* What the invocation in flight asked for.
Id == last.ids[1]
Amount == last.amounts[1]
IsDebit == last.op \in {"Burn", "TransferFrom"}

\* The invocation in flight got past the checks that precede removeBalance.
DebitAdmitted ==
    /\ checkInitialized
    /\ last.from \in Clients
    /\ \/ last.op = "Burn" /\ ClientMSPID(last.caller) = minterMSPID
       \/ /\ last.op = "TransferFrom"
          /\ last.from # last.to
          /\ (last.caller = last.from \/ _isApprovedForAll(last.from, last.caller))

\* The amount a batch asks for one id: the sum over the positions naming it.
RECURSIVE Demand(_, _, _, _)
Demand(ids, amounts, id, i) ==
    IF i > Len(ids) THEN 0
    ELSE (IF ids[i] = id THEN amounts[i] ELSE 0) + Demand(ids, amounts, id, i + 1)

\* C2: in every reachable state and for every (account, id), BalanceOf
\* succeeds and returns the sum of the amounts of the partition entries of
\* (account, id), 0 when there is none.
C2_BalanceOfIsSumOfEntries ==
    checkInitialized =>
        \A account \in Clients, id \in TokenIds :
            BalanceOf(account, id) = [err |-> "ok", val |-> SumEntries(balance, account, id)]

\* C3: a successful debit (Burn, TransferFrom) of neededAmount from
\* (account, id) leaves the aggregate of (account, id) equal to the previous
\* aggregate minus neededAmount, whatever entries there are and wherever the
\* account's own entry sits in the scan order.
C3_DebitReducesAggregate ==
    (IsDebit /\ last.err = "ok") =>
        SumEntries(balance, last.from, Id) = SumEntries(prev, last.from, Id) - Amount

\* The scan went past the account's own entry, which sits between two others,
\* and stopped with a remainder.
C3_Witness ==
    /\ last.op = "Burn" /\ last.err = "ok"
    /\ Entries(prev, last.from, Id) = Clients
    /\ last.from = ClientOrder[2]
    /\ Amount > prev[<<last.from, Id, ClientOrder[1]>>]
    /\ Amount < SumEntries(prev, last.from, Id)
    /\ balance # prev

\* C4: a debit of more than the aggregate of (account, id) fails with
\* InsufficientFunds and leaves every partition entry as it was, the ones the
\* scan deleted before it saw the shortfall included.
C4_InsufficientFundsIsAtomic ==
    (IsDebit /\ DebitAdmitted /\ Amount > SumEntries(prev, last.from, Id)) =>
        (last.err = "InsufficientFunds" /\ balance = prev)

\* The failed debit had folded in, and deleted, an entry of another sender.
C4_Witness ==
    /\ IsDebit /\ last.err = "InsufficientFunds"
    /\ \E o \in Entries(prev, last.from, Id) : o # last.from
    /\ balance = prev

C6_RoundTrip ==
    /\ (last.op \in {"Mint", "TransferFrom"} /\ last.err = "ok" /\ Amount > 0
        /\ Entries(prev, last.to, Id) = {}) =>
           LET origin == IF last.op = "Mint" THEN last.caller ELSE last.from
           IN  /\ Entries(balance, last.to, Id) = {origin}
               /\ balance[<<last.to, Id, origin>>] = Amount
    /\ (IsDebit /\ last.err = "ok" /\ Amount > 0
        /\ Cardinality(Entries(prev, last.from, Id)) = 1
        /\ SumEntries(prev, last.from, Id) = Amount) =>
           /\ Entries(balance, last.from, Id) = {}
           /\ BalanceOf(last.from, Id) = [err |-> "ok", val |-> 0]

\* The one entry that was debited in full was the account's own.
C6_Witness ==
    /\ IsDebit /\ last.err = "ok" /\ Amount > 0
    /\ Entries(prev, last.from, Id) = {last.from}
    /\ prev[<<last.from, Id, last.from>>] = Amount
    /\ Entries(balance, last.from, Id) = {}

\* C7: with exactly two entries (A, id, X) = 3 and (A, id, Y) = 5, a debit of
\* 6 from (A, id) consumes both entries and leaves exactly 2 units in a single
\* entry, the one of A's own partition.
C7_MultiPartitionDebit ==
    (IsDebit /\ last.err = "ok" /\ Amount = 6
     /\ \E X \in Clients, Y \in Clients :
            /\ X # Y
            /\ Entries(prev, last.from, Id) = {X, Y}
            /\ prev[<<last.from, Id, X>>] = 3
            /\ prev[<<last.from, Id, Y>>] = 5) =>
        /\ Entries(balance, last.from, Id) = {last.from}
        /\ balance[<<last.from, Id, last.from>>] = 2

\* X and Y are both other senders, X before Y in the scan.
C7_Witness ==
    /\ IsDebit /\ last.err = "ok" /\ Amount = 6
    /\ last.from = ClientOrder[2]
    /\ Entries(prev, last.from, Id) = {ClientOrder[1], ClientOrder[3]}
    /\ prev[<<last.from, Id, ClientOrder[1]>>] = 3
    /\ prev[<<last.from, Id, ClientOrder[3]>>] = 5
    /\ Entries(balance, last.from, Id) = {last.from}

\* C8: a batch that names an id several times is applied as one demand per
\* distinct id, the sum of the amounts given for it: a successful MintBatch
\* raises the aggregate of every id by that sum, and BurnBatch succeeds only
\* if the aggregate of every id is at least that sum, and lowers it by it.
C8_BatchCoalescing ==
    /\ (last.op = "MintBatch" /\ last.err = "ok") =>
           \A id \in TokenIds :
               SumEntries(balance, last.to, id) =
                   SumEntries(prev, last.to, id) + Demand(last.ids, last.amounts, id, 1)
    /\ (last.op = "BurnBatch" /\ last.err = "ok") =>
           \A id \in TokenIds :
               /\ Demand(last.ids, last.amounts, id, 1) <= SumEntries(prev, last.from, id)
               /\ SumEntries(balance, last.from, id) =
                      SumEntries(prev, last.from, id) - Demand(last.ids, last.amounts, id, 1)

\* A mint batch that names the same id twice.
C8_Witness ==
    /\ last.op = "MintBatch" /\ last.err = "ok"
    /\ Len(last.ids) = 2 /\ last.ids[1] = last.ids[2]
    /\ SumEntries(balance, last.to, last.ids[1]) =
           SumEntries(prev, last.to, last.ids[1]) + last.amounts[1] + last.amounts[2]

\* C9: a successful batch operation emits exactly one batch event, and the
\* event lists each distinct id once, with the summed amount.
C9_BatchEventIsCoalesced ==
    (last.op \in {"MintBatch", "BurnBatch", "BatchTransferFrom"} /\ last.err = "ok") =>
        /\ Len(events) = 1
        /\ events[1].name = "TransferBatch"
        /\ Len(events[1].ids) = Len(events[1].values)
        /\ {events[1].ids[i] : i \in 1..Len(events[1].ids)} =
               {last.ids[i] : i \in 1..Len(last.ids)}
        /\ \A i, j \in 1..Len(events[1].ids) :
               i # j => events[1].ids[i] # events[1].ids[j]
        /\ \A i \in 1..Len(events[1].ids) :
               events[1].values[i] = Demand(last.ids, last.amounts, events[1].ids[i], 1)

IsTransfer == last.op \in {"TransferFrom", "BatchTransferFrom"}

\* The caller of the invocation in flight is its sender or an operator the
\* sender has currently approved.
CallerMayMove == last.caller = last.from \/ _isApprovedForAll(last.from, last.caller)

\* C11: TransferFrom and BatchTransferFrom move tokens out of sender only when
\* the caller is the sender or a currently approved operator of the sender: a
\* call by anyone else fails (with Unauthorized once it is past the checks the
\* code makes first) and changes no balance entry; SetApprovalForAll(operator,
\* false) leaves the operator unapproved, so its later transfers fail.
C11_OnlyOwnerOrOperatorMoves ==
    /\ (IsTransfer /\ ~CallerMayMove) =>
           /\ last.err # "ok"
           /\ balance = prev
           /\ (checkInitialized /\ last.from # last.to
               /\ Len(last.ids) = Len(last.amounts)) => last.err = "Unauthorized"
    /\ (last.op = "SetApprovalForAll" /\ last.err = "ok") =>
           (_isApprovedForAll(last.from, last.to) <=> last.approved)

\* An operator whose approval was revoked asks for tokens the sender holds.
C11_Witness ==
    /\ last.op = "TransferFrom" /\ last.err = "Unauthorized"
    /\ last.from \in Clients /\ last.caller # last.from
    /\ approval[<<last.from, last.caller>>] = "false"
    /\ Amount > 0 /\ Amount <= SumEntries(prev, last.from, Id)
    /\ last.to \in Clients
    /\ balance = prev

\* ---------------------------------------------------------------- fungible
\* The fungible invocation in flight left the world state as it was.
Unchanged20 == ws20 = prev20.ws /\ allowance20 = prev20.allowance

\* The balance read from a world state: Atoi of the entry of the account.
Balance20(ws, account) == Atoi(ws[account])

\* The invocation in flight moved exactly its value from `from` to `to` and
\* touched no other entry of the world state.
Moved20 ==
    /\ Balance20(ws20, last20.from) = Balance20(prev20.ws, last20.from) - last20.value
    /\ Balance20(ws20, last20.to) = Balance20(prev20.ws, last20.to) + last20.value
    /\ ws20[last20.to] # Absent
    /\ \A k \in Keys20 \ {last20.from, last20.to} : ws20[k] = prev20.ws[k]

\* C12: TransferFrom(from, to, amount) called by spender fails with
\* AllowanceExceeded and changes no state when allowance(from, spender) is
\* less than amount (on an initialised contract); when it succeeds it moves
\* exactly amount from from's balance to to's balance and sets
\* allowance(from, spender) to its previous value minus amount; a failed call
\* changes no state.
C12_TransferFromSpendsAllowance ==
    last20.op = "TransferFrom" =>
        LET pair == <<last20.from, last20.caller>>
            before == Atoi(prev20.allowance[pair])
        IN  /\ (checkInitialized20(prev20.ws) /\ before < last20.value) =>
                   (last20.err = "AllowanceExceeded" /\ Unchanged20)
            /\ last20.err = "ok" =>
                   /\ before >= last20.value
                   /\ Moved20
                   /\ allowance20[pair] = Itoa(before - last20.value)
                   /\ \A q \in DOMAIN allowance20 \ {pair} :
                          allowance20[q] = prev20.allowance[q]
            /\ last20.err # "ok" => Unchanged20

\* A spender other than the owner spent part of its allowance.
C12_Witness ==
    /\ last20.op = "TransferFrom" /\ last20.err = "ok"
    /\ last20.caller # last20.from
    /\ last20.value > 0
    /\ Atoi(allowance20[<<last20.from, last20.caller>>]) > 0
    /\ Balance20(ws20, last20.to) = Balance20(prev20.ws, last20.to) + last20.value

C14_MintCreditsCallerAndSupply ==
    last20.op = "Mint" =>
        /\ last20.value <= 0 => (last20.err # "ok" /\ Unchanged20)
        /\ last20.err = "ok" =>
               /\ Balance20(ws20, last20.caller) =
                      Balance20(prev20.ws, last20.caller) + last20.value
               /\ ws20[last20.caller] # Absent
               /\ Balance20(ws20, totalSupplyKey) =
                      Balance20(prev20.ws, totalSupplyKey) + last20.value
               /\ \A k \in Keys20 \ {last20.caller, totalSupplyKey} : ws20[k] = prev20.ws[k]
               /\ allowance20 = prev20.allowance
               /\ events20 = <<event("0x0", last20.caller, last20.value, "Transfer")>>
        /\ last20.err # "ok" => Unchanged20

\* The first mint of an account: its balance entry is created.
C14_Witness ==
    /\ last20.op = "Mint" /\ last20.err = "ok"
    /\ prev20.ws[last20.caller] = Absent
    /\ ws20[last20.caller] = Itoa(last20.value)
    /\ events20[1].from = "0x0"

\* C15: Burn(amount) fails and changes neither any balance nor totalSupply
\* when the caller has no balance entry or a balance smaller than amount; on
\* success it decreases the caller's balance and totalSupply by exactly
\* amount.
C15_BurnDebitsCallerAndSupply ==
    last20.op = "Burn" =>
        /\ (\/ prev20.ws[last20.caller] = Absent
            \/ Balance20(prev20.ws, last20.caller) < last20.value) =>
               (last20.err # "ok" /\ Unchanged20)
        /\ last20.err = "ok" =>
               /\ Balance20(ws20, last20.caller) =
                      Balance20(prev20.ws, last20.caller) - last20.value
               /\ Balance20(ws20, totalSupplyKey) =
                      Balance20(prev20.ws, totalSupplyKey) - last20.value
               /\ \A k \in Keys20 \ {last20.caller, totalSupplyKey} : ws20[k] = prev20.ws[k]
        /\ last20.err # "ok" => Unchanged20

\* A burn of more than the caller holds, while totalSupply would cover it.
C15_Witness ==
    /\ last20.op = "Burn" /\ last20.err = "InsufficientFunds"
    /\ prev20.ws[last20.caller] # Absent
    /\ Balance20(prev20.ws, last20.caller) < last20.value
    /\ Balance20(prev20.ws, totalSupplyKey) >= last20.value
    /\ Unchanged20

\* ------------------------------------------------------------ issuer gate
\* The operations each contract reserves for the minter organisation.
Privileged1155 == {"Initialize", "Mint", "MintBatch", "Burn", "BurnBatch", "SetURI"}
Privileged20 == {"Initialize", "Mint", "Burn"}
Privileged721 == {"Initialize", "MintWithTokenURI"}

\* The checks a multi-token operation makes before it looks at the issuer.
PastEarlierChecks1155(call) ==
    \/ call.op = "Initialize"
    \/ /\ checkInitialized
       /\ call.op \in {"Burn", "BurnBatch"} => call.from # "0x0"
       /\ call.op \in {"MintBatch", "BurnBatch"} => Len(call.ids) = Len(call.amounts)

\* One step of the issuer gate: a privileged invocation by a caller of another
\* organisation.
C16_Step ==
    /\ (/\ last = NoCall /\ last'.op \in Privileged1155
        /\ ClientMSPID(last'.caller) # minterMSPID) =>
           /\ last'.err # "ok"
           /\ UNCHANGED <<options, balance, approval, uri>>
           /\ events' = <<>>
           /\ PastEarlierChecks1155(last') => last'.err = "Unauthorized"
    /\ (/\ last20 = NoCall20 /\ last20'.op \in Privileged20
        /\ ClientMSPID(last20'.caller) # minterMSPID) =>
           /\ last20'.err # "ok"
           /\ UNCHANGED <<ws20, allowance20>>
           /\ events20' = <<>>
           /\ (last20'.op = "Initialize" \/ checkInitialized20(ws20)) =>
                  last20'.err = "Unauthorized"
    /\ (/\ last721 = NoCall721 /\ last721'.op \in Privileged721
        /\ ClientMSPID(last721'.caller) # minterMSPID) =>
           /\ last721'.err # "ok"
           /\ UNCHANGED <<options721, nft, index721, approval721>>
           /\ events721' = <<>>
           /\ (last721'.op = "Initialize" \/ checkInitialized1) =>
                  last721'.err = "Unauthorized"

\* C16: every privileged operation (Initialize of each variant, fungible Mint
\* and Burn, MintWithTokenURI, multi-token Mint, MintBatch, Burn, BurnBatch and
\* SetURI) invoked by a caller whose issuer is not the minter issuer fails and
\* leaves all ledger state and metadata unchanged; the failure is Unauthorized
\* whenever the call is past the checks the operation makes before the issuer
\* check (initialisation, zero address, array lengths).
C16_IssuerGate == [][C16_Step]_vars

\* A caller of another organisation asked to burn tokens the account holds.
C16_Witness ==
    /\ last.op = "Burn" /\ last.err = "Unauthorized"
    /\ ClientMSPID(last.caller) # minterMSPID
    /\ Amount > 0 /\ Amount <= SumEntries(balance, last.from, Id)
    /\ balance = prev

\* ---------------------------------------------------- initialisation gate
\* The queries of the multi-token contract (BalanceOf is defined above).
NotInitialized == [err |-> "NotInitialized", val |-> 0]

\* BalanceOfBatch that answers for the shorter of the two arrays.
BalanceOfBatch_Truncates(accounts, ids) ==
    IF ~checkInitialized THEN NotInitialized
    ELSE IF Len(accounts) = 0 \/ Len(ids) = 0 THEN [err |-> "ok", val |-> 0]
    ELSE balanceOfHelper(balance, accounts[1], ids[1])

\* SmartContract.BalanceOfBatch, for one (account, id) pair per array.
BalanceOfBatch(accounts, ids) ==
    IF ~checkInitialized THEN NotInitialized
    ELSE IF Len(accounts) # Len(ids) THEN [err |-> "LengthMismatch", val |-> 0]
    ELSE IF Len(accounts) = 0 THEN [err |-> "ok", val |-> 0]
    ELSE balanceOfHelper(balance, accounts[1], ids[1])

\* SmartContract.ClientAccountBalance
ClientAccountBalance(caller, id) ==
    IF ~checkInitialized THEN NotInitialized ELSE balanceOfHelper(balance, caller, id)

\* SmartContract.ClientAccountID
ClientAccountID(caller) ==
    IF ~checkInitialized THEN NotInitialized ELSE [err |-> "ok", val |-> caller]

\* SmartContract.URI
URI(id) ==
    IF ~checkInitialized THEN NotInitialized
    ELSE IF uri = "" THEN [err |-> "NotFound", val |-> 0]
    ELSE [err |-> "ok", val |-> uri]

\* SmartContract.Symbol
Symbol ==
    IF ~checkInitialized THEN NotInitialized ELSE [err |-> "ok", val |-> options.symbol]

\* BalanceOf that answers 0 for an account without an entry.
BalanceOf20_ZeroForAbsent(account) ==
    IF ~checkInitialized20(ws20) THEN NotInitialized
    ELSE [err |-> "ok", val |-> Atoi(ws20[account])]

\* The queries of the fungible contract.
BalanceOf20(account) ==
    IF ~checkInitialized20(ws20) THEN NotInitialized
    ELSE IF ws20[account] = Absent THEN [err |-> "NotFound", val |-> 0]
    ELSE [err |-> "ok", val |-> Atoi(ws20[account])]

ClientAccountBalance20(clientID) == BalanceOf20(clientID)

ClientAccountID20(clientID) ==
    IF ~checkInitialized20(ws20) THEN NotInitialized ELSE [err |-> "ok", val |-> clientID]

TotalSupply20 ==
    IF ~checkInitialized20(ws20) THEN NotInitialized
    ELSE [err |-> "ok", val |-> Atoi(ws20[totalSupplyKey])]

Allowance20(owner, spender) ==
    IF ~checkInitialized20(ws20) THEN NotInitialized
    ELSE [err |-> "ok", val |-> Atoi(allowance20[<<owner, spender>>])]

\* The queries of the non-fungible contract (IsApprovedForAll is defined
\* above); BalanceOf and TotalSupply panic where the others return an error.
ERC721BalanceOf(owner) ==
    IF ~checkInitialized1 THEN NotInitialized
    ELSE [err |-> "ok", val |-> Cardinality({e \in index721 : e[1] = owner})]

OwnerOf(tokenId) ==
    IF ~checkInitialized1 THEN NotInitialized
    ELSE [err |-> _readNFT(tokenId).err, val |-> _readNFT(tokenId).nft.owner]

GetApproved(tokenId) ==
    IF ~checkInitialized1 THEN NotInitialized
    ELSE [err |-> _readNFT(tokenId).err, val |-> _readNFT(tokenId).nft.approved]

TokenURI(tokenId) ==
    IF ~checkInitialized1 THEN NotInitialized
    ELSE [err |-> _readNFT(tokenId).err, val |-> _readNFT(tokenId).nft.tokenURI]

ERC721Name ==
    IF ~checkInitialized1 THEN NotInitialized ELSE [err |-> "ok", val |-> options721.name]

ERC721Symbol ==
    IF ~checkInitialized1 THEN NotInitialized ELSE [err |-> "ok", val |-> options721.symbol]

ERC721TotalSupply ==
    IF ~checkInitialized1 THEN NotInitialized
    ELSE [err |-> "ok", val |-> Cardinality({t \in TokenIds721 : nft[t].exists})]

ERC721ClientAccountBalance(clientAccountID) == ERC721BalanceOf(clientAccountID)

ERC721ClientAccountID(clientAccountID) ==
    IF ~checkInitialized1 THEN NotInitialized ELSE [err |-> "ok", val |-> clientAccountID]

\* The gate of the multi-token contract: before Initialize every operation,
\* the queries included, answers NotInitialized, and no entry exists.
Gate1155 ==
    ~checkInitialized =>
        /\ last.op \notin {"none", "Initialize"} => last.err = "NotInitialized"
        /\ \A c \in Clients, id \in TokenIds :
               /\ BalanceOf(c, id).err = "NotInitialized"
               /\ BalanceOfBatch(<<c>>, <<id>>).err = "NotInitialized"
               /\ ClientAccountBalance(c, id).err = "NotInitialized"
               /\ ClientAccountID(c).err = "NotInitialized"
               /\ URI(id).err = "NotInitialized"
        /\ Symbol.err = "NotInitialized"
        /\ balance = EmptyBalance
        /\ \A p \in DOMAIN approval : approval[p] = "nil"
        /\ uri = ""

Gate20 ==
    ~checkInitialized20(ws20) =>
        /\ last20.op \notin {"none", "Initialize"} => last20.err = "NotInitialized"
        /\ \A c \in Accounts20, d \in Accounts20 :
               /\ BalanceOf20(c).err = "NotInitialized"
               /\ ClientAccountBalance20(c).err = "NotInitialized"
               /\ ClientAccountID20(c).err = "NotInitialized"
               /\ Allowance20(c, d).err = "NotInitialized"
        /\ TotalSupply20.err = "NotInitialized"
        /\ \A k \in Keys20 : ws20[k] = Absent
        /\ \A p \in DOMAIN allowance20 : allowance20[p] = Absent

Gate721 ==
    ~checkInitialized1 =>
        /\ last721.op \notin {"none", "Initialize"} => last721.err = "NotInitialized"
        /\ \A c \in Clients, d \in Clients, t \in TokenIds721 :
               /\ ERC721BalanceOf(c).err = "NotInitialized"
               /\ OwnerOf(t).err = "NotInitialized"
               /\ ERC721IsApprovedForAll(c, d).err = "NotInitialized"
               /\ GetApproved(t).err = "NotInitialized"
               /\ TokenURI(t).err = "NotInitialized"
               /\ ERC721ClientAccountBalance(c).err = "NotInitialized"
               /\ ERC721ClientAccountID(c).err = "NotInitialized"
        /\ ERC721Name.err = "NotInitialized"
        /\ ERC721Symbol.err = "NotInitialized"
        /\ ERC721TotalSupply.err = "NotInitialized"
        /\ \A t \in TokenIds721 : nft[t] = NoNft
        /\ index721 = {}
        /\ \A p \in DOMAIN approval721 : approval721[p] = "nil"

\* C17: while metadata is absent, every public operation other than
\* Initialize, in each of the three variants and including the read-only
\* queries such as the multi-token IsApprovedForAll, fails with
\* NotInitialized and changes no state, so that no balance, record, allowance
\* or approval entry exists in any state where metadata is absent.
C17_InitializationGate == Gate1155 /\ Gate20 /\ Gate721

\* --------------------------------------------------------------- metadata
\* One Initialize step of each contract: it succeeds exactly when the caller's
\* issuer is the minter issuer and no metadata exists, then stores what it was
\* given; otherwise it fails and leaves the metadata as it was.
C18_Step ==
    /\ (last = NoCall /\ last'.op = "Initialize") =>
           /\ last'.err = "ok" <=>
                  (ClientMSPID(last'.caller) = minterMSPID /\ ~checkInitialized)
           /\ last'.err = "ok" => options'.name = last'.to
           /\ last'.err # "ok" => UNCHANGED <<options, balance, approval, uri>>
    /\ (last20 = NoCall20 /\ last20'.op = "Initialize") =>
           /\ last20'.err = "ok" <=>
                  (ClientMSPID(last20'.caller) = minterMSPID /\ ~checkInitialized20(ws20))
           /\ last20'.err = "ok" =>
                  /\ ws20'[nameKey] = Text(last20'.to)
                  /\ ws20'[decimalsKey] = Itoa(last20'.value)
           /\ last20'.err # "ok" => UNCHANGED <<ws20, allowance20>>
    /\ (last721 = NoCall721 /\ last721'.op = "Initialize") =>
           /\ last721'.err = "ok" <=>
                  (ClientMSPID(last721'.caller) = minterMSPID /\ ~checkInitialized1)
           /\ last721'.err = "ok" => options721'.name = last721'.to
           /\ last721'.err # "ok" => UNCHANGED <<options721, nft, index721, approval721>>

\* C18: Initialize is one-time.  It succeeds only when the caller's issuer is
\* the minter issuer and no metadata exists; once metadata exists every
\* Initialize call, by any caller and with any arguments, fails and leaves
\* name, symbol and decimals unchanged.
C18_InitializeOnce == [][C18_Step]_vars

\* The minter asked to initialise, under another name, a contract that
\* already has its metadata.
C18_Witness ==
    /\ last20.op = "Initialize" /\ last20.err = "AlreadyExists"
    /\ ClientMSPID(last20.caller) = minterMSPID
    /\ ws20[nameKey] # Text(last20.to)
    /\ ws20 = prev20.ws

\* The metadata entries of the fungible contract.
MetadataKeys20 == {nameKey, symbolKey, decimalsKey}

\* C19: contract metadata is immutable after Initialize.  In every state
\* reached after a successful Initialize, by any operation with any recipient,
\* spender or account string, the stored name, symbol and decimals are the
\* values given to that Initialize: the Initialize in flight stored its
\* arguments, and an invocation on an initialised contract left the three
\* entries as they were.
C19_MetadataImmutable ==
    /\ (last20.op = "Initialize" /\ last20.err = "ok") =>
           /\ ws20[nameKey] = Text(last20.to)
           /\ ws20[symbolKey] \in {Text(x) : x \in Symbols}
           /\ ws20[decimalsKey] = Itoa(last20.value)
    /\ checkInitialized20(prev20.ws) =>
           \A k \in MetadataKeys20 : ws20[k] = prev20.ws[k]

\* ----------------------------------------------------------------- events
Mutating1155 ==
    {"Mint", "MintBatch", "Burn", "BurnBatch", "TransferFrom", "BatchTransferFrom",
     "SetApprovalForAll"}
Mutating20 == {"Mint", "Burn", "Transfer", "TransferFrom", "Approve"}
Mutating721 == {"MintWithTokenURI", "Burn", "TransferFrom", "Approve", "SetApprovalForAll"}

\* One event for a successful invocation, none for a failed one.
OneEvent(err, evs) == IF err = "ok" THEN Len(evs) = 1 ELSE evs = <<>>

\* C20: every successful mutating operation of every variant (mint, burn,
\* transfer, transferFrom, approve, setApprovalForAll and the batch
\* operations) emits exactly one event; a failed operation emits none.
C20_OneEventPerSuccess ==
    /\ last.op \in Mutating1155 => OneEvent(last.err, events)
    /\ last20.op \in Mutating20 => OneEvent(last20.err, events20)
    /\ last721.op \in Mutating721 => OneEvent(last721.err, events721)

\* ------------------------------------------------------ non-fungible tokens
\* The record the invocation in flight found under its tokenId.
Found721 == prev721.nft[last721.tokenId]

\* The caller of the invocation in flight was approved for all tokens of owner.
WasOperatorOf(owner) ==
    /\ <<owner, last721.caller>> \in DOMAIN prev721.approval
    /\ prev721.approval[<<owner, last721.caller>>] = "true"

\* The invocation in flight wrote nothing of the non-fungible ledger.
Unchanged721 ==
    nft = prev721.nft /\ index721 = prev721.index /\ approval721 = prev721.approval

\* The caller may move the token and from is its owner.
MayTransfer721 ==
    /\ Found721.exists
    /\ \/ last721.caller = Found721.owner
       \/ last721.caller = Found721.approved
       \/ WasOperatorOf(Found721.owner)
    /\ last721.from = Found721.owner

\* C21: TransferFrom(from, to, tokenId) succeeds only if the caller is the
\* current owner, the record's approved operator or an approved-for-all
\* operator of the owner, and from is the current owner; on success the owner
\* becomes to, the approved operator is cleared and the index entry moves
\* from from to to; in every other case it fails and the record and the
\* index are unchanged.
C21_TransferFromMovesToken ==
    last721.op = "TransferFrom" =>
        /\ last721.err = "ok" <=> MayTransfer721
        /\ IF last721.err = "ok"
           THEN /\ nft = [prev721.nft EXCEPT ![last721.tokenId] =
                             Nft(last721.to, Found721.tokenURI, "")]
                /\ index721 = (prev721.index \ {<<last721.from, last721.tokenId>>})
                                  \cup {<<last721.to, last721.tokenId>>}
                /\ \A c \in Clients : GetApproved(last721.tokenId).val # c
           ELSE Unchanged721

\* The approved operator of a record, who is not its owner, moved the token to
\* a third account.
C21_Witness ==
    /\ last721.op = "TransferFrom" /\ last721.err = "ok"
    /\ last721.caller = Found721.approved
    /\ last721.caller # Found721.owner
    /\ last721.to \notin {last721.caller, last721.from}
    /\ nft[last721.tokenId].approved = ""

\* C22: Approve(operator, tokenId) sets the record's approved operator only
\* when the caller is the current owner of tokenId or an approved-for-all
\* operator of that owner; for any other caller, or for a tokenId without a
\* record, it fails and the record is unchanged.
C22_ApproveByOwnerOrOperator ==
    last721.op = "Approve" =>
        /\ last721.err = "ok" <=>
               /\ Found721.exists
               /\ last721.caller = Found721.owner \/ WasOperatorOf(Found721.owner)
        /\ IF last721.err = "ok"
           THEN /\ nft = [prev721.nft EXCEPT ![last721.tokenId] =
                             Nft(Found721.owner, Found721.tokenURI, last721.to)]
                /\ index721 = prev721.index
           ELSE Unchanged721

\* An approved-for-all operator, not the owner, approved a third account.
C22_Witness ==
    /\ last721.op = "Approve" /\ last721.err = "ok"
    /\ last721.caller # Found721.owner
    /\ nft[last721.tokenId].approved = last721.to
    /\ last721.to # Found721.approved

\* C23: mint of a tokenId that already has a record fails (with AlreadyExists
\* once the call is past the initialisation and issuer checks) and leaves the
\* record's owner, URI and approved operator and the index unchanged; mint of
\* a tokenId without a record creates the record with the caller as owner and
\* one index entry (caller, tokenId).
C23_MintOnce ==
    last721.op = "MintWithTokenURI" =>
        /\ Found721.exists =>
               /\ last721.err # "ok"
               /\ ClientMSPID(last721.caller) = minterMSPID => last721.err = "AlreadyExists"
        /\ (~Found721.exists /\ checkInitialized1 /\ ClientMSPID(last721.caller) = minterMSPID)
               => last721.err = "ok"
        /\ IF last721.err = "ok"
           THEN /\ nft[last721.tokenId].exists
                /\ nft[last721.tokenId].owner = last721.caller
                /\ nft[last721.tokenId].tokenURI \in TokenURIs
                /\ nft[last721.tokenId].approved = ""
                /\ \A t \in TokenIds721 \ {last721.tokenId} : nft[t] = prev721.nft[t]
                /\ index721 = prev721.index \cup {<<last721.caller, last721.tokenId>>}
                /\ <<last721.caller, last721.tokenId>> \notin prev721.index
           ELSE Unchanged721

\* A minter asked to mint a token that another account owns, with an approved
\* operator on its record.
C23_Witness ==
    /\ last721.op = "MintWithTokenURI" /\ last721.err = "AlreadyExists"
    /\ nft[last721.tokenId].owner # last721.caller
    /\ nft[last721.tokenId].approved # ""
    /\ Unchanged721

\* C24: Burn(tokenId) succeeds only when the caller is the current owner (an
\* approved operator or approved-for-all operator cannot burn); on success the
\* record and the owner's index entry are both deleted, and for a tokenId
\* without a record OwnerOf, GetApproved and TransferFrom fail.
C24_BurnByOwnerOnly ==
    /\ last721.op = "Burn" =>
           /\ last721.err = "ok" <=> (Found721.exists /\ last721.caller = Found721.owner)
           /\ IF last721.err = "ok"
              THEN /\ nft = [prev721.nft EXCEPT ![last721.tokenId] = NoNft]
                   /\ index721 = prev721.index \ {<<last721.caller, last721.tokenId>>}
                   /\ \A c \in Clients : <<c, last721.tokenId>> \notin index721
              ELSE Unchanged721
    /\ \A t \in TokenIds721 : ~nft[t].exists =>
           /\ OwnerOf(t).err # "ok"
           /\ GetApproved(t).err # "ok"
           /\ \A sender \in Clients, from \in Clients, to \in AccountArgs :
                  TransferFromResult721(sender, from, to, t).err # "ok"

\* The owner burned a token whose record named an approved operator.
C24_Witness ==
    /\ last721.op = "Burn" /\ last721.err = "ok"
    /\ Found721.approved # ""
    /\ nft[last721.tokenId] = NoNft
    /\ index721 = {}

\* ---------------------------------------------------- approvals and reads
\* C25: approvals overwrite and never merge.  After a fungible Approve by
\* owner for spender, allowance(owner, spender) is the amount of that call
\* (not a sum) and no other allowance changed; after a SetApprovalForAll by
\* owner for operator, IsApprovedForAll(owner, operator) is the flag of that
\* call.
C25_ApprovalsOverwrite ==
    /\ (last20.op = "Approve" /\ last20.err = "ok") =>
           /\ Allowance20(last20.caller, last20.to) = [err |-> "ok", val |-> last20.value]
           /\ \A p \in DOMAIN allowance20 :
                  p # <<last20.caller, last20.to>> => allowance20[p] = prev20.allowance[p]
           /\ ws20 = prev20.ws
    /\ (last721.op = "SetApprovalForAll" /\ last721.err = "ok") =>
           /\ ERC721IsApprovedForAll(last721.caller, last721.to)
                  = [err |-> "ok", val |-> last721.approved]
           /\ \A p \in DOMAIN approval721 :
                  p # <<last721.caller, last721.to>> => approval721[p] = prev721.approval[p]
    /\ (last.op = "SetApprovalForAll" /\ last.err = "ok") =>
           _isApprovedForAll(last.caller, last.to) = last.approved

\* An owner replaced a positive allowance by another positive amount.
C25_Witness ==
    /\ last20.op = "Approve" /\ last20.err = "ok"
    /\ Atoi(prev20.allowance[<<last20.caller, last20.to>>]) > 0
    /\ last20.value > 0
    /\ Atoi(allowance20[<<last20.caller, last20.to>>]) = last20.value
    /\ last20.value # Atoi(prev20.allowance[<<last20.caller, last20.to>>])

\* C26: reads of absent entries on an initialised contract.  Fungible
\* Allowance(owner, spender) and TotalSupply() return 0 when no entry was
\* written, IsApprovedForAll(owner, operator) returns false for a pair never
\* set, and fungible BalanceOf(account) for an account without a balance
\* entry fails with NotFound instead of returning 0.
C26_ReadsOfAbsentEntries ==
    /\ checkInitialized20(ws20) =>
           /\ \A o \in Accounts20, sp \in Accounts20 :
                  allowance20[<<o, sp>>] = Absent =>
                      Allowance20(o, sp) = [err |-> "ok", val |-> 0]
           /\ ws20[totalSupplyKey] = Absent => TotalSupply20 = [err |-> "ok", val |-> 0]
           /\ \A c \in Clients :
                  ws20[c] = Absent =>
                      /\ BalanceOf20(c).err = "NotFound"
                      /\ ClientAccountBalance20(c).err = "NotFound"
    /\ checkInitialized1 =>
           \A o \in Clients, op \in Clients :
               approval721[<<o, op>>] = "nil" =>
                   ERC721IsApprovedForAll(o, op) = [err |-> "ok", val |-> FALSE]
    /\ (last.op = "IsApprovedForAll" /\ approval[<<last.from, last.to>>] = "nil") =>
           last.err = "ok" /\ ~last.approved

\* An initialised fungible contract after an Approve: one allowance is
\* stored, another is not, and neither totalSupply nor a balance of b exists.
C26_Witness ==
    /\ checkInitialized20(ws20)
    /\ last20.op = "Approve" /\ last20.err = "ok"
    /\ allowance20[<<last20.to, last20.caller>>] = Absent
    /\ ws20[totalSupplyKey] = Absent
    /\ ws20["b"] = Absent /\ BalanceOf20("b").err = "NotFound"

\* ------------------------------------------------------------ amounts
\* C27: amounts are never negative.  Every stored account balance, the stored
\* totalSupply and every stored allowance of the fungible ledger is >= 0,
\* whatever integers callers pass to Mint, Burn, Transfer, TransferFrom and
\* Approve.
C27_AmountsNeverNegative ==
    /\ \A k \in BalanceKeys20 \cup {totalSupplyKey} : Atoi(ws20[k]) >= 0
    /\ \A p \in DOMAIN allowance20 : Atoi(allowance20[p]) >= 0

\* C29: when a Burn, Transfer or TransferFrom brings an account's balance to
\* exactly zero, that account's balance entry is deleted, so no fungible
\* balance entry with amount 0 exists after the operation.
C29_ZeroBalanceIsDeleted ==
    (last20.op \in {"Burn", "Transfer", "TransferFrom"} /\ last20.err = "ok") =>
        \A c \in Clients :
            /\ (Atoi(prev20.ws[c]) > 0 /\ Atoi(ws20[c]) = 0) => ws20[c] = Absent
            /\ ws20[c] # Itoa(0)

\* ------------------------------------------------------ partition entries
\* C28: no partition entry (account, id, creditor origin) of the multi-token
\* ledger has amount 0: an entry whose amount would become 0 is deleted, and no
\* operation (TransferFrom and BatchTransferFrom with amount 0 included)
\* creates or leaves an entry with amount 0.
C28_NoZeroEntry == \A k \in BalanceKeys : balance[k] # 0

\* The invocation in flight names the zero address as the account it mints
\* to, burns from or transfers to.
OnZeroAddress ==
    \/ last.op \in {"Mint", "MintBatch", "TransferFrom", "BatchTransferFrom"} /\ last.to = "0x0"
    \/ last.op \in {"Burn", "BurnBatch"} /\ last.from = "0x0"

\* No partition entry is held by the zero address.
NoZeroAddressEntry == \A k \in BalanceKeys : k[1] = "0x0" => balance[k] = nil

\* A MintBatch with no ids: mintHelper, which holds the zero-address check, is
\* never called.
EmptyMintBatch == last.op = "MintBatch" /\ last.ids = <<>>

\* C30: Mint to account "0x0", MintBatch of at least one id to account "0x0",
\* Burn and BurnBatch from account "0x0" and TransferFrom and
\* BatchTransferFrom to recipient "0x0" all fail; every invocation that names
\* the zero address leaves every partition entry unchanged (the sender is not
\* debited), so no entry whose account is the zero address exists in any
\* reachable state.
C30_ZeroAddress ==
    /\ (OnZeroAddress /\ ~EmptyMintBatch) => last.err # "ok" /\ events = <<>>
    /\ OnZeroAddress => balance = prev
    /\ NoZeroAddressEntry

\* C30 as stated: every Mint and MintBatch to account "0x0", Burn and
\* BurnBatch from account "0x0" and TransferFrom and BatchTransferFrom to
\* recipient "0x0" fails and leaves every partition entry unchanged, so no
\* entry whose account is the zero address exists.
C30_ZeroAddressAlwaysFails ==
    /\ OnZeroAddress => last.err # "ok" /\ balance = prev /\ events = <<>>
    /\ NoZeroAddressEntry

\* An account that holds the amount asked to transfer it to the zero address.
C30_Witness ==
    /\ last.op = "TransferFrom" /\ last.to = "0x0" /\ last.err = "InvalidAddress"
    /\ last.caller = last.from
    /\ Amount > 0 /\ Amount <= SumEntries(balance, last.from, Id)
    /\ balance = prev

\* ---------------------------------------------------------- array lengths
BatchOps == {"MintBatch", "BurnBatch", "BatchTransferFrom"}

\* The checks a batch operation makes before it compares the array lengths.
PastChecksBeforeLength ==
    /\ checkInitialized
    /\ last.op = "BurnBatch" => last.from # "0x0"
    /\ last.op = "BatchTransferFrom" => last.from # last.to

\* C31: MintBatch, BurnBatch and BatchTransferFrom called with
\* len(ids) # len(amounts), and BalanceOfBatch called with
\* len(accounts) # len(ids), fail without changing any balance entry; the
\* failure is LengthMismatch once the call is past the checks made before the
\* comparison (initialisation, zero address, transfer to self).
C31_LengthMismatch ==
    /\ (last.op \in BatchOps /\ Len(last.ids) # Len(last.amounts)) =>
           /\ last.err # "ok"
           /\ balance = prev
           /\ events = <<>>
           /\ PastChecksBeforeLength => last.err = "LengthMismatch"
    /\ checkInitialized =>
           \A accounts \in SeqsUpTo(Clients, MaxBatch), ids \in SeqsUpTo(TokenIds, MaxBatch) :
               Len(accounts) # Len(ids) =>
                   BalanceOfBatch(accounts, ids).err = "LengthMismatch"

\* A caller of another organisation asked to burn, with one id and two
\* amounts, from an account that holds the token.
C31_Witness ==
    /\ last.op = "BurnBatch" /\ last.err = "LengthMismatch"
    /\ Len(last.ids) = 1 /\ Len(last.amounts) = 2
    /\ ClientMSPID(last.caller) # minterMSPID
    /\ last.from \in Clients
    /\ SumEntries(balance, last.from, last.ids[1]) > 0
    /\ balance = prev

\* ------------------------------------------------------- fungible transfer
\* The checks of Transfer pass on the world state the invocation found.
TransferAdmitted ==
    /\ checkInitialized20(prev20.ws)
    /\ last20.caller # last20.to
    /\ last20.value >= 0
    /\ prev20.ws[last20.caller] # Absent
    /\ Atoi(prev20.ws[last20.caller]) >= last20.value
    /\ Atoi(prev20.ws[last20.to]) + last20.value <= MaxInt

RecordsOwnedBy(o) == {t \in TokenIds721 : nft[t].exists /\ nft[t].owner = o}

RECURSIVE SumOfBalances721(_)
SumOfBalances721(i) ==
    IF i > Len(KeyOrder) THEN 0
    ELSE ERC721BalanceOf(KeyOrder[i]).val + SumOfBalances721(i + 1)

\* C39: in every state the secondary index holds (owner, tokenId) exactly
\* when a record of tokenId exists and names that owner, also right after a
\* TransferFrom from an account to itself; BalanceOf(o) is then the number of
\* records owned by o and the balances of all owners add up to TotalSupply().
C39_IndexMatchesRecords ==
    /\ index721 \subseteq AccountArgs \X TokenIds721
    /\ \A o \in AccountArgs, t \in TokenIds721 :
        <<o, t>> \in index721 <=> (nft[t].exists /\ nft[t].owner = o)
    /\ \A t \in TokenIds721 : nft[t].exists => nft[t].owner \in AccountArgs
    /\ checkInitialized1 =>
        /\ \A o \in AccountArgs : ERC721BalanceOf(o).val = Cardinality(RecordsOwnedBy(o))
        /\ SumOfBalances721(1) = ERC721TotalSupply.val

C39_Witness ==
    /\ last721.op = "TransferFrom"
    /\ last721.err = "ok"
    /\ last721.from = last721.to
    /\ <<last721.to, last721.tokenId>> \in index721
    /\ ERC721TotalSupply.val = 2
    /\ \E o \in Clients : o # last721.to /\ ERC721BalanceOf(o).val = 1

\* ---------------------------------------------------------------- C40
IsBurn == last.op \in {"Burn", "BurnBatch"}

\* The burn in flight got past the checks that precede authorizationHelper.
BurnPastEarlierChecks ==
    /\ checkInitialized
    /\ last.from \in Clients
    /\ Len(last.ids) = Len(last.amounts)

\* The account held, before the burn, what the burn asks of every id, and
\* neither the demands nor the holdings leave the unsigned range.
BurnCovered ==
    \A id \in TokenIds :
        /\ Demand(last.ids, last.amounts, id, 1) <= SumEntries(prev, last.from, id)
        /\ SumEntries(prev, last.from, id) <= MaxUint64

\* C40: Burn and BurnBatch are authorised by the issuer check alone: a caller
\* of the minter issuer burns the tokens of any non-zero account that holds
\* enough, whether or not the caller is that account or an operator of it,
\* and a caller of another issuer is refused even for its own tokens.
C40_BurnByIssuerAlone ==
    (IsBurn /\ BurnPastEarlierChecks) =>
        /\ ClientMSPID(last.caller) # minterMSPID =>
            /\ last.err = "Unauthorized"
            /\ balance = prev
            /\ events = <<>>
        /\ ClientMSPID(last.caller) = minterMSPID =>
            /\ last.err # "Unauthorized"
            /\ BurnCovered => last.err = "ok"

C40_Witness ==
    /\ last.op = "Burn"
    /\ last.err = "ok"
    /\ last.caller # last.from
    /\ last.from \in Clients
    /\ ~_isApprovedForAll(last.from, last.caller)
    /\ Amount > 0
    /\ SumEntries(balance, last.from, Id) + Amount = SumEntries(prev, last.from, Id)

\* ------------------------------------------------------- C34, C35, C36
\* The debit in flight, described from the ledger before it: the senders of
\* the entries of (from, Id) in ascending key order, the sum of the first k
\* of them, and the place where that sum first reaches the amount asked.
ScanKeys == GetStateByPartialCompositeKey(prev, last.from, Id)

RECURSIVE PrefixSum(_)
PrefixSum(k) ==
    IF k = 0 THEN 0 ELSE PrefixSum(k - 1) + prev[<<last.from, Id, ScanKeys[k]>>]

StoppingPoint ==
    IF \E k \in 0..Len(ScanKeys) : PrefixSum(k) >= Amount
    THEN CHOOSE k \in 0..Len(ScanKeys) :
            /\ PrefixSum(k) >= Amount
            /\ \A j \in 0..(k - 1) : PrefixSum(j) < Amount
    ELSE Len(ScanKeys)

Folded == {ScanKeys[j] : j \in 1..StoppingPoint}
RunningTotal == PrefixSum(StoppingPoint)
SelfEncountered == last.from \in Folded
SelfKey == <<last.from, Id, last.from>>

\* The entry a TransferFrom credits; a Burn credits none.
CreditKeys == IF last.op = "TransferFrom" THEN {<<last.to, Id, last.from>>} ELSE {}

\* C34: when the running total of a successful debit exceeds the amount
\* asked, every folded entry of another sender is deleted and the account's
\* own entry holds the remainder: exactly the remainder if the scan met the
\* own entry, its previous amount (0 if absent) plus the remainder if not.
C34_RemainderHandling ==
    (IsDebit /\ last.err = "ok" /\ RunningTotal > Amount) =>
        /\ \A o \in Folded \ {last.from} : balance[<<last.from, Id, o>>] = nil
        /\ balance[SelfKey] =
              IF SelfEncountered THEN RunningTotal - Amount
              ELSE ParseUint(prev[SelfKey]) + (RunningTotal - Amount)

\* The scan stopped before the account's own entry, which held something.
C34_Witness ==
    /\ IsDebit /\ last.err = "ok"
    /\ RunningTotal > Amount
    /\ ~SelfEncountered
    /\ Folded # {}
    /\ prev[SelfKey] # nil /\ prev[SelfKey] > 0
    /\ balance[SelfKey] = prev[SelfKey] + RunningTotal - Amount

\* C35: when the running total equals the amount asked (an amount of 0 with
\* nothing scanned included), the account's own entry is deleted exactly when
\* the scan met it; when it did not, the debit succeeds and, apart from the
\* deletion of the folded entries, writes and deletes nothing.
C35_ExactMatch ==
    (IsDebit /\ DebitAdmitted /\ RunningTotal = Amount) =>
        /\ last.op = "Burn" => last.err = "ok"
        /\ last.err = "ok" =>
            /\ balance[SelfKey] = (IF SelfEncountered THEN nil ELSE prev[SelfKey])
            /\ ~SelfEncountered =>
                \A k \in BalanceKeys \ CreditKeys :
                    balance[k] = IF k[1] = last.from /\ k[2] = Id /\ k[3] \in Folded
                                 THEN nil ELSE prev[k]

\* The folded entries match the amount and the account's own entry, further
\* on in the key order, is left as it was.
C35_Witness ==
    /\ last.op = "Burn" /\ last.err = "ok"
    /\ Amount > 0
    /\ RunningTotal = Amount
    /\ ~SelfEncountered
    /\ prev[SelfKey] # nil
    /\ balance[SelfKey] = prev[SelfKey]
    /\ \A o \in Folded : balance[<<last.from, Id, o>>] = nil

\* C36: a successful debit of (account, id) leaves as they were the entries
\* of (account, id) of other senders that come after the point where the
\* running total reached the amount asked, and the entries of every other
\* account and of every other id; it creates no entry but, possibly, the
\* account's own.
C36_DebitFrame ==
    (IsDebit /\ last.err = "ok") =>
        /\ \A o \in Clients \ (Folded \cup {last.from}) :
              balance[<<last.from, Id, o>>] = prev[<<last.from, Id, o>>]
        /\ \A k \in BalanceKeys \ CreditKeys :
              (k[1] # last.from \/ k[2] # Id) => balance[k] = prev[k]
        /\ \A k \in BalanceKeys \ CreditKeys :
              (prev[k] = nil /\ balance[k] # nil) => k = SelfKey

\* The scan stopped with an entry of another sender still ahead, and the
\* remainder made an entry of the account's own.
C36_Witness ==
    /\ last.op = "Burn" /\ last.err = "ok"
    /\ StoppingPoint < Len(ScanKeys)
    /\ ScanKeys[Len(ScanKeys)] # last.from
    /\ balance[<<last.from, Id, ScanKeys[Len(ScanKeys)]>>] > 0
    /\ prev[SelfKey] = nil
    /\ balance[SelfKey] # nil

\* ---------------------------------------------------------------- C37
\* The (id, amount) pairs of a batch in the opposite order.
Reverse(s) == [i \in 1..Len(s) |-> s[Len(s) + 1 - i]]

\* The credit of a batch to an account, applied to a ledger.
BatchCredit(st, sender, account, ids, amounts) ==
    LET ats == sumPerId(ids, amounts, 1, <<>>)
    IN  IF ats.err # "ok" THEN [err |-> ats.err, st |-> st]
        ELSE IF last.op = "MintBatch"
        THEN mintLoop(st, sender, account, ats.m, sortedKeys(ats.m), 1)
        ELSE creditLoop(st, sender, account, ats.m, sortedKeys(ats.m), 1)

\* The ids of the batch in flight whose summed demand the account did not hold.
UnmetIds ==
    {id \in TokenIds : Demand(last.ids, last.amounts, id, 1) > SumEntries(prev, last.from, id)}

\* C37: a batch gives the same ledger, and on failure names the same id, for
\* the pairs in the order given and in the opposite order; the id named by a
\* debit that fails for lack of funds is the smallest one whose summed demand
\* the account does not hold.
C37_BatchDeterminism ==
    (last.op \in BatchOps /\ Len(last.ids) = Len(last.amounts)) =>
        LET rids == Reverse(last.ids)
            ramounts == Reverse(last.amounts)
            debit == removeBalance(prev, last.from, last.ids, last.amounts)
            rdebit == removeBalance(prev, last.from, rids, ramounts)
        IN  /\ last.op = "MintBatch" =>
                /\ BatchCredit(prev, last.caller, last.to, last.ids, last.amounts)
                     = BatchCredit(prev, last.caller, last.to, rids, ramounts)
                /\ last.err = "ok" =>
                     balance = BatchCredit(prev, last.caller, last.to, rids, ramounts).st
            /\ last.op \in {"BurnBatch", "BatchTransferFrom"} =>
                /\ debit = rdebit
                /\ removeBalanceTokenId(prev, last.from, last.ids, last.amounts)
                     = removeBalanceTokenId(prev, last.from, rids, ramounts)
                /\ (last.from \in Clients /\ debit.err = "InsufficientFunds") =>
                     /\ UnmetIds # {}
                     /\ \A id \in UnmetIds :
                          removeBalanceTokenId(prev, last.from, last.ids, last.amounts) <= id
                     /\ removeBalanceTokenId(prev, last.from, last.ids, last.amounts) \in UnmetIds
            /\ (last.op = "BurnBatch" /\ last.err = "ok") => balance = rdebit.st
            /\ (last.op = "BatchTransferFrom" /\ last.err = "ok") =>
                balance = BatchCredit(rdebit.st, last.from, last.to, rids, ramounts).st

\* The batch names the larger id first and the account holds neither demand.
C37_Witness ==
    /\ last.op = "BurnBatch"
    /\ last.err = "InsufficientFunds"
    /\ Len(last.ids) = 2 /\ Len(last.amounts) = 2
    /\ last.ids[1] > last.ids[2]
    /\ last.amounts[1] # last.amounts[2]
    /\ UnmetIds = TokenIds
    /\ removeBalanceTokenId(prev, last.from, last.ids, last.amounts) = last.ids[2]
    /\ balance = prev

\* ---------------------------------------------------------------- C38
\* C38: in every state reached by successful operations the entries of any
\* (account, id) add up to a number in the unsigned range, so that BalanceOf
\* never fails with ArithmeticOverflow, and neither does a debit of an amount
\* the entries cover.
C38_AggregateInRange ==
    /\ \A account \in Clients, id \in TokenIds :
          /\ SumEntries(balance, account, id) <= MaxUint64
          /\ checkInitialized => BalanceOf(account, id).err # "ArithmeticOverflow"
    /\ (IsDebit /\ DebitAdmitted /\ Amount <= SumEntries(prev, last.from, Id)) =>
          last.err # "ArithmeticOverflow"

====
